---- MODULE Spec2Model ----
(***************************************************************************)
(* Model of the token-analysis pipeline of the ORB terminal                *)
(* (Terminal component: cache, stopScanning, analyzeToken) together with   *)
(* the thin API wrappers it awaits (api.js).                               *)
(*                                                                         *)
(* JavaScript is single-threaded: the code between two awaits runs         *)
(* atomically.  Every action below is one such segment: it starts when an  *)
(* event handler is invoked or an awaited promise settles, and it runs     *)
(* to the next await or to the end of the function.                        *)
(*                                                                         *)
(* The segments are written as functions from a state record to a state    *)
(* record (the record has one field per variable), so that a segment can   *)
(* fall through into the next one exactly as the code does.                *)
(***************************************************************************)
EXTENDS Integers, Sequences, FiniteSets, TLC

(***************************************************************************)
(* Bounds of the model.                                                    *)
(***************************************************************************)
\* number of analyzeToken invocations in one behaviour
MaxRuns == 2
\* number of clock advances in one behaviour
MaxClockSteps == 1
\* number of countdown ticks modelled after an analysis request
MaxTicks == 1
\* number of cache operations of the stand-alone cache specification
MaxCacheOps == 5
\* length of the holder lists of the stand-alone classifier specification
MaxHolders == 3
\* length of the holder lists of the stand-alone scoring specification
MaxScored == 2
\* length of the record lists of the stand-alone aggregator specification
MaxAggregated == 2
\* number of holders past the slice in the lists of the stand-alone slice
\* specification
MaxBeyondSlice == 2

(***************************************************************************)
(* Program constants.                                                      *)
(***************************************************************************)
CACHE_TTL_TOKEN_INFO == 60 * 1000
CACHE_TTL_TOP_HOLDERS == 60 * 1000
COUNTDOWN_START == 180
HOLDER_SLICE == 30
LP_THRESHOLD == 25

Runs == 1..MaxRuns
NoRun == 0

Null == [found |-> FALSE, data |-> "null"]
Some(d) == [found |-> TRUE, data |-> d]

(***************************************************************************)
(* CACHE SYSTEM                                                            *)
(* The cache is a Map: a function whose domain is the set of keys present. *)
(* An entry is { data, timestamp }.                                        *)
(***************************************************************************)
getCacheKey(type, identifier) == <<type, identifier>>

CacheDelete(c, key) == [k \in (DOMAIN c) \ {key} |-> c[k]]

\* (a set that keeps the entry a key already has)
CachePutIfAbsent(c, key, entry) ==
    [k \in (DOMAIN c) \cup {key} |-> IF k \in DOMAIN c THEN c[k] ELSE entry]

\* (a set that replaces the whole Map by the one entry)
CachePutAlone(c, key, entry) == [k \in {key} |-> entry]

CachePut(c, key, entry) == [k \in (DOMAIN c) \cup {key} |-> IF k = key THEN entry ELSE c[k]]

\* the expiry test of getCachedData
\* (the comparison written with >= )
ExpiredOffByOne(age, ttl) == age >= ttl

Expired(age, ttl) == age > ttl

\* (a get whose hit renews the timestamp of the entry)
getCachedDataTouching(c, key, ttl, t) ==
    IF key \notin DOMAIN c
    THEN [result |-> Null, cache |-> c]
    ELSE IF Expired(t - c[key].timestamp, ttl)
         THEN [result |-> Null, cache |-> CacheDelete(c, key)]
         ELSE [result |-> Some(c[key].data),
               cache |-> CachePut(c, key, [data |-> c[key].data, timestamp |-> t])]

\* getCachedData returns a value and may delete the entry: the pair
\* [result, cache] is what the call leaves behind.
getCachedData(c, key, ttl, t) ==
    IF key \notin DOMAIN c
    THEN [result |-> Null, cache |-> c]
    ELSE IF Expired(t - c[key].timestamp, ttl)
         THEN [result |-> Null, cache |-> CacheDelete(c, key)]
         ELSE [result |-> Some(c[key].data), cache |-> c]

setCachedData(c, key, data, t) == CachePut(c, key, [data |-> data, timestamp |-> t])

\* !forceRefresh ? getCachedData(key, ttl) : null
\* (a lookup that ignores forceRefresh)
CacheLookupAlways(forceRefresh, c, key, ttl, t) == getCachedData(c, key, ttl, t)

CacheLookup(forceRefresh, c, key, ttl, t) ==
    IF forceRefresh THEN [result |-> Null, cache |-> c] ELSE getCachedData(c, key, ttl, t)

(***************************************************************************)
(* Inputs: search strings, token identities, holder lists, supplies and    *)
(* the responses of the remote services.                                   *)
(***************************************************************************)
TokenAddress == "So11111111111111111111111111111111111111112"
TokenSymbol == "ORB"

\* what the user can type (or what arrives in the ?token= parameter)
SearchInputs == {"", " ORB "}

\* String.prototype.trim on the inputs above
Trim(str) == IF str = " ORB " THEN TokenSymbol ELSE str

NoToken == [symbol |-> "", contractAddress |-> ""]
\* both identifiers resolve to the same token
TheToken == [symbol |-> TokenSymbol, contractAddress |-> TokenAddress]

\* fetchTokenInfoByAddress / fetchTokenInfoBySymbol: the token record, or a
\* rejection ('Token not found' when there are no pairs, the fetch error
\* otherwise).  Neither ever resolves to a falsy value.
TokenResponses ==
    { [kind |-> "found", token |-> TheToken, message |-> ""],
      [kind |-> "throw", token |-> NoToken, message |-> "Token not found"],
      [kind |-> "throw", token |-> NoToken, message |-> "Failed to fetch"] }

\* getFusedSignal: the response body, or a rejection
FusionResponses ==
    { [kind |-> "ok", success |-> TRUE, confidence |-> 87, direction |-> "strong_buy"],
      [kind |-> "ok", success |-> FALSE, confidence |-> 0, direction |-> ""],
      [kind |-> "throw", success |-> FALSE, confidence |-> 0, direction |-> ""] }

Holder(a, n) == [address |-> a, amount |-> n]

\* fetchTokenHolders: a list ordered by amount descending; [] when both the
\* backend and the RPC fallback fail.  Of a supply of 40000 the amounts are
\* 25.00, 24.9975, 24.99, 24.9925 and 0.60 percent.
HolderLists ==
    { << >>,
      << Holder("LP", 10000), Holder("W1", 9999), Holder("W2", 9996) >>,
      << Holder("W1", 9997), Holder("W2", 240) >> }

\* getTokenSupply: supply / 10^decimals, or 0 when the RPC call fails
Supplies == {0, 40000}

\* the body of a 200 response of /api/wallet/analyze (0 and "" stand for a
\* missing field: both are falsy in the `||` defaults, and 0 stands for the
\* null of firstBuyTime).  A body is complete or empty.
WalletBody(iq, winRate, trades, tradesScore, portfolio, pattern, holdScore, firstBuyTime) ==
    [iq |-> iq, winRate |-> winRate, trades |-> trades, tradesScore |-> tradesScore,
     portfolio |-> portfolio, pattern |-> pattern, holdScore |-> holdScore,
     firstBuyTime |-> firstBuyTime]

EmptyBody == WalletBody(0, "", 0, 0, 0, "", 0, 0)

\* POST /api/wallet/analyze: what fetch and response.json() can produce
AnalyzeResponses ==
    { [kind |-> "ok", status |-> 200,
       body |-> WalletBody(80, "75.0", 12, 15, 3, "DIAMOND HANDS", 20, 1690000), resets_at |-> 0],
      [kind |-> "ok", status |-> 200, body |-> EmptyBody, resets_at |-> 0],
      [kind |-> "rateLimited", status |-> 429, body |-> EmptyBody, resets_at |-> 1700000],
      [kind |-> "nonOk", status |-> 500, body |-> EmptyBody, resets_at |-> 0],
      [kind |-> "networkError", status |-> 0, body |-> EmptyBody, resets_at |-> 0],
      [kind |-> "malformed", status |-> 200, body |-> EmptyBody, resets_at |-> 0] }

\* what the log of a run keeps of a response
ResponseClass(resp) ==
    IF resp.kind = "ok" THEN "ok"
    ELSE IF resp.kind = "rateLimited" THEN "rateLimited"
    ELSE "failed"

(***************************************************************************)
(* Numbers.  A percentage is kept in hundredths, which is what toFixed(2)   *)
(* produces; amount / 0 is Infinity in JavaScript and survives toFixed and  *)
(* parseFloat as Infinity.  Amounts are positive.                          *)
(***************************************************************************)
Pct(h) == [inf |-> FALSE, v |-> h]
PctInfinity == [inf |-> TRUE, v |-> 0]

\* (holder.amount / totalSupply * 100).toFixed(2): rounded to the nearest
\* hundredth
RoundNearest(num, den) == (2 * num + den) \div (2 * den)

HoldingPercent(amount, totalSupply) ==
    IF totalSupply = 0 THEN PctInfinity
    ELSE Pct(RoundNearest(amount * 100 * 100, totalSupply))

\* holdingPercent >= 25
AtLeast(p, whole) == p.inf \/ p.v >= whole * 100

\* (the comparison written with > )
IsLiquidityPoolStrict(holdingPercent) ==
    holdingPercent.inf \/ holdingPercent.v > LP_THRESHOLD * 100

IsLiquidityPool(holdingPercent) == AtLeast(holdingPercent, LP_THRESHOLD)

\* x || d
OrDefault(x, d) == IF x = 0 THEN d ELSE x
OrDefaultStr(x, d) == IF x = "" THEN d ELSE x

(***************************************************************************)
(* api.js: analyzeWalletViaBackend.  Every throw inside its try block      *)
(* (fetch rejection, the 429 branch, a non-OK status, response.json()       *)
(* failing) lands in its own catch, which returns the default record.  The *)
(* 429 branch raises an alert with the reset time before it throws.        *)
(***************************************************************************)
WalletRecord(iq, winRate, trades, tradesScore, portfolio, pattern, holdScore, firstBuyTime) ==
    [iq |-> iq, winRate |-> winRate, trades |-> trades, tradesScore |-> tradesScore,
     portfolio |-> portfolio, pattern |-> pattern, holdScore |-> holdScore,
     firstBuyTime |-> firstBuyTime]

\* the record returned by the catch block (the mutant carries the pattern of
\* the success path)
ApiDefaultOnErrorUnknown == WalletRecord(50, "0.0", 0, 0, 0, "Unknown", 0, 0)
ApiDefaultOnError == WalletRecord(50, "0.0", 0, 0, 0, "ERROR", 0, 0)

\* [threw, value]: the settled promise
analyzeWalletViaBackend(resp) ==
    IF resp.kind = "ok"
    THEN [threw |-> FALSE,
          value |-> WalletRecord(OrDefault(resp.body.iq, 50),
                                 OrDefaultStr(resp.body.winRate, "0.0"),
                                 OrDefault(resp.body.trades, 0),
                                 OrDefault(resp.body.tradesScore, 0),
                                 OrDefault(resp.body.portfolio, 0),
                                 OrDefaultStr(resp.body.pattern, "Unknown"),
                                 OrDefault(resp.body.holdScore, 0),
                                 OrDefault(resp.body.firstBuyTime, 0))]
    ELSE [threw |-> FALSE, value |-> ApiDefaultOnError]

\* the alert of the 429 branch: new Date(errorData.resets_at * 1000)
RateLimitAlerts(resp) ==
    IF resp.kind = "rateLimited" THEN {[resetTime |-> resp.resets_at * 1000]} ELSE {}

(***************************************************************************)
(* The records of the analysed-holder list.  Amounts are whole numbers of  *)
(* tokens, so holder.amount.toFixed(0) is the amount itself; the three     *)
(* kinds of record do not carry the same fields.                           *)
(***************************************************************************)
\* the synthetic record of the classifier (it has no tradesScore)
LiquidityPoolRecord(holder, holdingPercent) ==
    [address |-> holder.address, iq |-> 0, winRate |-> "0.0", trades |-> 0,
     portfolio |-> 0, pattern |-> "LIQUIDITY POOL", holdScore |-> 0,
     holdingAmount |-> holder.amount, holdingPercent |-> holdingPercent,
     firstBuyTime |-> 0]

\* the record pushed after a settled analyzeWalletViaBackend call: from the
\* wallet data, or the one of the catch block (it has no firstBuyTime)
ScoredRecord(holder, settled, holdingPercent) ==
    IF settled.threw
    THEN [address |-> holder.address, iq |-> 50, winRate |-> "0.0", trades |-> 0,
          tradesScore |-> 0, portfolio |-> 0, pattern |-> "ERROR", holdScore |-> 0,
          holdingAmount |-> holder.amount, holdingPercent |-> holdingPercent]
    ELSE [address |-> holder.address,
          iq |-> OrDefault(settled.value.iq, 50),
          winRate |-> OrDefaultStr(settled.value.winRate, "0.0"),
          trades |-> OrDefault(settled.value.trades, 0),
          tradesScore |-> OrDefault(settled.value.tradesScore, 0),
          portfolio |-> OrDefault(settled.value.portfolio, 0),
          pattern |-> OrDefaultStr(settled.value.pattern, "Unknown"),
          holdScore |-> OrDefault(settled.value.holdScore, 0),
          holdingAmount |-> holder.amount, holdingPercent |-> holdingPercent,
          firstBuyTime |-> OrDefault(settled.value.firstBuyTime, 0)]

\* holderData.slice(0, 30)
\* (the whole list)
SliceNone(list, n) == list

Slice(list, n) == SubSeq(list, 1, IF Len(list) < n THEN Len(list) ELSE n)

\* the forEach of the classifier: the liquidity-pool records and the
\* ordinary wallets, each in input order
\* (a pool test written with > next to an ordinary test written with < :
\* the holder at exactly the threshold is in neither list)
LiquidityPoolsAboveOnly(wallets, totalSupply) ==
    LET IsPool(h) == IsLiquidityPoolStrict(HoldingPercent(h.amount, totalSupply))
        pools == SelectSeq(wallets, IsPool)
    IN [k \in 1..Len(pools) |->
           LiquidityPoolRecord(pools[k], HoldingPercent(pools[k].amount, totalSupply))]

LiquidityPools(wallets, totalSupply) ==
    LET IsPool(h) == IsLiquidityPool(HoldingPercent(h.amount, totalSupply))
        pools == SelectSeq(wallets, IsPool)
    IN [k \in 1..Len(pools) |->
           LiquidityPoolRecord(pools[k], HoldingPercent(pools[k].amount, totalSupply))]

\* (a classifier without its else branch)
NormalWalletsWithPools(wallets, totalSupply) == wallets

NormalWallets(wallets, totalSupply) ==
    LET IsNormal(h) == ~IsLiquidityPool(HoldingPercent(h.amount, totalSupply))
    IN SelectSeq(wallets, IsNormal)

\* analyzedHolders.sort((a, b) => b.iq - a.iq): a stable sort, iq
\* descending.  SortedPosition is the place of element k in the result: after
\* every element with a higher iq and after the earlier elements with the
\* same iq.
SortedPosition(list, k) ==
    1 + Cardinality({j \in 1..Len(list) : list[j].iq > list[k].iq})
      + Cardinality({j \in 1..(k - 1) : list[j].iq = list[k].iq})

\* (the list left in the order of the pushes)
SortSkipped(list) == list

SortByIq(list) ==
    [p \in 1..Len(list) |-> list[CHOOSE k \in 1..Len(list) : SortedPosition(list, k) = p]]

(***************************************************************************)
(* JavaScript numbers.  The aggregator works on IEEE 754 doubles: every    *)
(* +, * and / and every parseFloat gives the double nearest to the exact   *)
(* result (ties to even).  A double is m * 2^e, with the mantissa m below   *)
(* 2^53 kept as a sequence of 15-bit limbs, lowest limb first (<< >> is     *)
(* 0); the numbers of the aggregator are never negative.                   *)
(***************************************************************************)
LimbBits == 15
LimbBase == 2^LimbBits
MantissaBits == 53

Limb(a, i) == IF i <= Len(a) THEN a[i] ELSE 0

\* without its leading zero limbs
BigNorm(a) ==
    CHOOSE big \in
      {IF x = <<>> \/ x[Len(x)] # 0 THEN x
       ELSE SubSeq(x, 1, Cardinality({i \in 1..Len(x) : \E j \in i..Len(x) : x[j] # 0}))
         : x \in {a}} : TRUE

BigOfInt(k) == IF k = 0 THEN <<>> ELSE IF k < LimbBase THEN <<k>>
               ELSE BigNorm(<<k % LimbBase, (k \div LimbBase) % LimbBase,
                              k \div (LimbBase * LimbBase)>>)

RECURSIVE BigToInt(_)
BigToInt(a) ==
    CHOOSE int \in {IF x = <<>> THEN 0
                    ELSE x[1] + LimbBase * BigToInt(Tail(x)) : x \in {a}} : TRUE

RECURSIVE BigAddFrom(_, _, _, _)
BigAddFrom(a, b, i, carry) ==
    IF i > Len(a) /\ i > Len(b) THEN (IF carry = 0 THEN <<>> ELSE <<carry>>)
    ELSE <<(Limb(a, i) + Limb(b, i) + carry) % LimbBase>>
           \o BigAddFrom(a, b, i + 1, (Limb(a, i) + Limb(b, i) + carry) \div LimbBase)
BigAdd(a, b) ==
    CHOOSE big \in {BigAddFrom(x, y, 1, 0) : x \in {a}, y \in {b}} : TRUE

RECURSIVE BigSubFrom(_, _, _, _)
BigSubFrom(a, b, i, borrow) ==
    IF i > Len(a) THEN <<>>
    ELSE IF a[i] - Limb(b, i) - borrow < 0
    THEN <<a[i] - Limb(b, i) - borrow + LimbBase>> \o BigSubFrom(a, b, i + 1, 1)
    ELSE <<a[i] - Limb(b, i) - borrow>> \o BigSubFrom(a, b, i + 1, 0)
BigSub(a, b) ==
    CHOOSE big \in {BigNorm(BigSubFrom(x, y, 1, 0)) : x \in {a}, y \in {b}} : TRUE

\* a <= b
BigLeq(a, b) ==
    CHOOSE leq \in
      {\/ Len(x) < Len(y)
       \/ /\ Len(x) = Len(y)
          /\ \A i \in 1..Len(x) : x[i] > y[i] => \E j \in (i + 1)..Len(x) : x[j] < y[j]
         : x \in {a}, y \in {b}} : TRUE

RECURSIVE BigMulSmallFrom(_, _, _, _)
BigMulSmallFrom(a, k, i, carry) ==
    IF i > Len(a) THEN (IF carry = 0 THEN <<>> ELSE <<carry>>)
    ELSE <<(a[i] * k + carry) % LimbBase>>
           \o BigMulSmallFrom(a, k, i + 1, (a[i] * k + carry) \div LimbBase)
BigMulSmall(a, k) ==
    CHOOSE big \in {IF y = 0 THEN <<>> ELSE BigMulSmallFrom(x, y, 1, 0)
                      : x \in {a}, y \in {k}} : TRUE

RECURSIVE BigMulFrom(_, _, _)
BigMulFrom(a, b, i) ==
    IF i > Len(b) THEN <<>>
    ELSE IF i = Len(b) THEN BigMulSmall(a, b[i])
    ELSE BigAdd(BigMulSmall(a, b[i]), <<0>> \o BigMulFrom(a, b, i + 1))
BigMul(a, b) ==
    CHOOSE big \in {IF Len(x) < Len(y) THEN BigMulFrom(y, x, 1) ELSE BigMulFrom(x, y, 1)
                      : x \in {a}, y \in {b}} : TRUE

BigShl(a, s) ==
    CHOOSE big \in
      {IF x = <<>> THEN <<>>
       ELSE IF n % LimbBits = 0 THEN [i \in 1..(n \div LimbBits) |-> 0] \o x
       ELSE [i \in 1..(n \div LimbBits) |-> 0] \o BigMulSmallFrom(x, 2^(n % LimbBits), 1, 0)
         : x \in {a}, n \in {s}} : TRUE

\* the limbs of the quotient from limb i down, lowest first, and then the
\* remainder
RECURSIVE BigDivSmallFrom(_, _, _, _)
BigDivSmallFrom(a, k, i, rem) ==
    IF i = 0 THEN <<rem>>
    ELSE Append(BigDivSmallFrom(a, k, i - 1, (rem * LimbBase + a[i]) % k),
                (rem * LimbBase + a[i]) \div k)
BigDivSmall(a, k) ==
    CHOOSE qr \in {[q |-> BigNorm(Tail(d)), r |-> d[1]]
                     : d \in {BigDivSmallFrom(a, k, Len(a), 0)}} : TRUE

BigShr(a, s) ==
    CHOOSE big \in
      {IF n \div LimbBits >= Len(x) THEN <<>>
       ELSE IF n % LimbBits = 0 THEN SubSeq(x, n \div LimbBits + 1, Len(x))
       ELSE BigDivSmall(SubSeq(x, n \div LimbBits + 1, Len(x)), 2^(n % LimbBits)).q
         : x \in {a}, n \in {s}} : TRUE

SmallBitLen(k) == CHOOSE j \in 0..LimbBits : k < 2^j /\ (j = 0 \/ 2^(j - 1) <= k)
BitLen(a) ==
    CHOOSE len \in {IF x = <<>> THEN 0
                    ELSE (Len(x) - 1) * LimbBits + SmallBitLen(x[Len(x)]) : x \in {a}} : TRUE

\* one limb of a quotient: the divisor b has its top bit set, so the estimate
\* from the two top limbs of cur is at most two above the limb
QuotLimb(cur, b) ==
    CHOOSE d \in
      {IF BigLeq(BigMulSmall(b, qhat), cur) THEN qhat
       ELSE IF BigLeq(BigMulSmall(b, qhat - 1), cur) THEN qhat - 1
       ELSE qhat - 2
         : qhat \in {CHOOSE est \in
              {IF t >= LimbBase THEN LimbBase - 1 ELSE t
                 : t \in {(Limb(cur, Len(b) + 1) * LimbBase + Limb(cur, Len(b)))
                             \div b[Len(b)]}} : TRUE}} : TRUE

RECURSIVE BigDivModFrom(_, _, _, _)
BigDivModFrom(a, b, i, rem) ==
    IF i = 0 THEN [q |-> <<>>, r |-> rem]
    ELSE CHOOSE qr \in
      {CHOOSE qr2 \in
         {CHOOSE qr3 \in {[q |-> Append(rest.q, d), r |-> rest.r]
             : rest \in {BigDivModFrom(a, b, i - 1, BigSub(cur, BigMulSmall(b, d)))}} : TRUE
           : d \in {IF Len(cur) < Len(b) THEN 0 ELSE QuotLimb(cur, b)}} : TRUE
         : cur \in {BigNorm(<<a[i]>> \o rem)}} : TRUE
\* quotient and remainder of a by b (both are shifted first so that the top
\* limb of b is full; the remainder is the shifted one)
BigDivMod(a, b) ==
    CHOOSE qr \in
      {CHOOSE qr2 \in {[q |-> BigNorm(d.q), r |-> d.r]
           : d \in {BigDivModFrom(x, y, Len(x), <<>>)}} : TRUE
         : x \in {BigShl(a, Len(b) * LimbBits - BitLen(b))},
           y \in {BigShl(b, Len(b) * LimbBits - BitLen(b))}} : TRUE

FZero == [m |-> <<>>, e |-> 0]

\* the low s bits of n against 2^(s - 1): -1 below, 0 equal, 1 above
HalfCompare(n, s) ==
    CHOOSE sign \in
      {IF lt[2] < 2^((s - 1) % LimbBits) THEN 0 - 1
       ELSE IF lt[2] > 2^((s - 1) % LimbBits) THEN 1
       ELSE IF \E i \in 1..lt[1] : n[i] # 0 THEN 1
       ELSE 0
         : lt \in {<<(s - 1) \div LimbBits,
                     Limb(n, (s - 1) \div LimbBits + 1) % 2^(((s - 1) % LimbBits) + 1)>>}} : TRUE

\* a mantissa loses its low zero limbs
Trimmed(m, e) ==
    CHOOSE float \in
      {IF z = 0 THEN [m |-> m, e |-> e]
       ELSE [m |-> SubSeq(m, z + 1, Len(m)), e |-> e + z * LimbBits]
         : z \in {Cardinality({i \in 1..Len(m) : \A j \in 1..i : m[j] = 0})}} : TRUE

\* n * 2^e (and a little more when sticky) rounded to 53 bits, to nearest
\* and to even on a tie
RoundTo(n, s, e, sticky) ==
    CHOOSE float \in
      {IF BitLen(m) > MantissaBits THEN Trimmed(BigShr(m, 1), e + s + 1)
       ELSE Trimmed(m, e + s)
         : m \in {CHOOSE rounded \in
              {IF qc[2] > 0 \/ (qc[2] = 0 /\ (sticky \/ qc[1][1] % 2 = 1))
               THEN BigAdd(qc[1], <<1>>) ELSE qc[1]
                 : qc \in {<<BigShr(n, s), HalfCompare(n, s)>>}} : TRUE}} : TRUE

Round(n, e, sticky) ==
    CHOOSE float \in
      {IF xl[2] = 0 THEN FZero
       ELSE IF xl[2] <= MantissaBits THEN Trimmed(xl[1], e)
       ELSE RoundTo(xl[1], xl[2] - MantissaBits, e, sticky)
         : xl \in {CHOOSE pair \in {<<x, BitLen(x)>> : x \in {n}} : TRUE}} : TRUE

FInt(k) == Round(BigOfInt(k), 0, FALSE)

\* the double nearest to a / b, for whole numbers a and b below 2^15
FRatio(a, b) ==
    IF a = 0 THEN FZero
    ELSE CHOOSE float \in
      {CHOOSE float2 \in {Round(d.q, 0 - k, d.r # 0)
           : d \in {BigDivSmall(BigShl(BigOfInt(a), k), b)}} : TRUE
         : k \in {MantissaBits + 2 + BitLen(BigOfInt(b))}} : TRUE

FMul(x, y) ==
    CHOOSE float \in {Round(BigMul(a.m, b.m), a.e + b.e, FALSE)
                        : a \in {x}, b \in {y}} : TRUE

FAdd(x, y) ==
    CHOOSE float \in
      {IF a.m = <<>> THEN b
       ELSE IF b.m = <<>> THEN a
       ELSE IF a.e >= b.e
       THEN Round(BigAdd(BigShl(a.m, a.e - b.e), b.m), b.e, FALSE)
       ELSE Round(BigAdd(a.m, BigShl(b.m, b.e - a.e)), a.e, FALSE)
         : a \in {x}, b \in {y}} : TRUE

\* the whole quotient of a by b, and whether it is the exact one
BigQuotient(a, b) ==
    IF Len(b) = 1
    THEN CHOOSE qe \in {[q |-> d.q, exact |-> d.r = 0] : d \in {BigDivSmall(a, b[1])}} : TRUE
    ELSE CHOOSE qe \in {[q |-> d.q, exact |-> d.r = <<>>] : d \in {BigDivMod(a, b)}} : TRUE

FDiv(x, y) ==
    CHOOSE float \in
      {IF a.m = <<>> THEN FZero
       ELSE CHOOSE float2 \in
         {CHOOSE float3 \in
              {Round(d.q, a.e - b.e - k, ~d.exact)
                 : d \in {BigQuotient(BigShl(a.m, k), b.m)}} : TRUE
            : k \in {IF BitLen(a.m) > MantissaBits + 2 + BitLen(b.m) THEN 0
                     ELSE MantissaBits + 2 + BitLen(b.m) - BitLen(a.m)}} : TRUE
         : a \in {x}, b \in {y}} : TRUE

FFloor(x) ==
    CHOOSE int \in
      {IF a.m = <<>> THEN 0
       ELSE IF a.e >= 0 THEN BigToInt(BigShl(a.m, a.e))
       ELSE BigToInt(BigShr(a.m, 0 - a.e)) : a \in {x}} : TRUE

(***************************************************************************)
(* Composite Aggregator (the "Calculate coin score" block).  A percentage  *)
(* is a two-decimal string, parsed into a double; the sums, the average    *)
(* and the three components are doubles.  A record whose holdingPercent    *)
(* is Infinity makes the weighted average NaN (0 * Infinity, or            *)
(* Infinity / Infinity): every comparison with NaN is false, so the rating *)
(* falls through to DEGEN.                                                 *)
(***************************************************************************)
\* parseFloat(w.holdingPercent) || 0 of a two-decimal string
ParsePercent(holdingPercent) == FRatio(holdingPercent.v, 100)

\* one turn of the forEach: weightedIQSum += walletIQ * holdingPct and
\* totalHoldingPercent += holdingPct
AddWallet(sums, w) ==
    CHOOSE next \in
      {[weightedIQSum |-> FAdd(sums.weightedIQSum, FMul(FInt(w.iq), holdingPct)),
        totalHoldingPercent |-> FAdd(sums.totalHoldingPercent, holdingPct)]
         : holdingPct \in {ParsePercent(w.holdingPercent)}} : TRUE

\* the two sums after the first k records
RECURSIVE LoopSums(_, _)
LoopSums(list, k) ==
    IF k = 0 THEN [weightedIQSum |-> FZero, totalHoldingPercent |-> FZero]
    ELSE AddWallet(LoopSums(list, k - 1), list[k])

CountOver(list, P(_)) == Cardinality({k \in 1..Len(list) : P(list[k])})

Min(a, b) == IF a < b THEN a ELSE b

\* weightedAvgIQ * 0.5
WalletIQComponent(list) ==
    CHOOSE float \in
      {IF sums.totalHoldingPercent.m # <<>>
       THEN FMul(FDiv(sums.weightedIQSum, sums.totalHoldingPercent), FRatio(1, 2))
       ELSE FZero
         : sums \in {LoopSums(list, Len(list))}} : TRUE

\* (smartMoneyCount / analyzedHolders.length) * 100 * 0.3
SmartMoneyComponent(smart, n) == 
    FMul(FMul(FDiv(FInt(smart), FInt(n)), FInt(100)), FRatio(3, 10))

\* Math.floor(walletIQComponent + smartMoneyComponent + majorHoldersComponent)
FloorOfComponents(list, smart, major) ==
    FFloor(FAdd(FAdd(WalletIQComponent(list), SmartMoneyComponent(smart, Len(list))),
                FInt(major)))

\* the sums of the loop in exact arithmetic, in hundredths
RECURSIVE ExactPercent(_, _)
ExactPercent(list, k) ==
    IF k = 0 THEN 0 ELSE ExactPercent(list, k - 1) + list[k].holdingPercent.v
RECURSIVE ExactWeightedIQ(_, _)
ExactWeightedIQ(list, k) ==
    IF k = 0 THEN 0
    ELSE ExactWeightedIQ(list, k - 1) + list[k].iq * list[k].holdingPercent.v

\* Math.floor of the three components.  Their exact value is num / den with
\* den = 2 * T * n below 2^25 (at most 31 records, percentages in
\* hundredths), so a value that is not whole is more than 2^-25 away from
\* the next whole number, while the rounding of the doubles moves the sum by
\* less than 2^-40: the floor of the doubles is then the floor of
\* num / den.  When the exact value is whole, the doubles decide on which
\* side of it their sum lands.
CoinIQ(list, smart, major) ==
    CHOOSE coinIQ \in
      {IF nd[1] % nd[2] = 0 THEN FloorOfComponents(list, smart, major)
       ELSE nd[1] \div nd[2]
         : nd \in {CHOOSE pair \in
              {IF T > 0
               THEN <<ExactWeightedIQ(list, Len(list)) * Len(list) + 60 * smart * T
                        + 2 * T * Len(list) * major,
                      2 * T * Len(list)>>
               ELSE <<30 * smart + Len(list) * major, Len(list)>>
                 : T \in {ExactPercent(list, Len(list))}} : TRUE}} : TRUE

\* (the thresholds compared with > )
RatingOfStrict(coinIQ) ==
    IF coinIQ > 80 THEN "ELITE"
    ELSE IF coinIQ > 60 THEN "SMART"
    ELSE IF coinIQ > 40 THEN "AVERAGE"
    ELSE "DEGEN"

RatingOf(coinIQ) ==
    IF coinIQ >= 80 THEN "ELITE"
    ELSE IF coinIQ >= 60 THEN "SMART"
    ELSE IF coinIQ >= 40 THEN "AVERAGE"
    ELSE "DEGEN"

NoScore == [overall |-> 0, nan |-> FALSE, rating |-> "none", source |-> "none"]

CoinScore(analyzedHolders) ==
    IF Len(analyzedHolders) = 0
    THEN [overall |-> 0, nan |-> FALSE, rating |-> "UNKNOWN", source |-> "wallets"]
    ELSE IF \E k \in 1..Len(analyzedHolders) : analyzedHolders[k].holdingPercent.inf
    THEN [overall |-> 0, nan |-> TRUE, rating |-> "DEGEN", source |-> "wallets"]
    ELSE
      LET IsSmart(w) == w.iq >= 75
          IsMajor(w) == w.holdingPercent.v > 50 /\ w.holdScore > 17
      IN CHOOSE score \in
           {[overall |-> coinIQ, nan |-> FALSE, rating |-> RatingOf(coinIQ),
             source |-> "wallets"]
              : coinIQ \in {CoinIQ(analyzedHolders,
                                   CountOver(analyzedHolders, IsSmart),
                                   Min(CountOver(analyzedHolders, IsMajor), 20))}} : TRUE

\* privacy branch: Math.round(confidence * 100) (confidence is kept in
\* hundredths) and direction.toUpperCase().replace('_', ' ')
FusionRating(direction) == IF direction = "strong_buy" THEN "STRONG BUY" ELSE direction

FusionScore(resp) ==
    [overall |-> resp.confidence, nan |-> FALSE, rating |-> FusionRating(resp.direction),
     source |-> "fusion"]

(***************************************************************************)
(* State.                                                                  *)
(***************************************************************************)
VARIABLES
    \* Terminal component state (useState)
    searchInput, privacyMode, loading, error, isScanning, countdown,
    analysisProgress, currentToken, walletAnalysis, coinScore, fusedSignal,
    \* useRef: the run whose AbortController / interval the ref holds, or NoRun
    abortControllerRef, countdownIntervalRef,
    \* the runs whose signal is aborted; the intervals that are ticking
    aborted, intervals,
    \* module-level cache and Date.now()
    cache, now,
    \* one record per analyzeToken invocation: its position, its locals, and
    \* the log of what it did (the analyze calls it started and their
    \* responses, the providers it called, what it published)
    run,
    \* number of invocations so far, alerts raised by the API layer
    started, alerts,
    \* counter that bounds the clock
    clockSteps,
    \* stand-alone cache specification: the operations applied so far
    cacheOps, lastOp, lastSet

pipeVars == << searchInput, privacyMode, loading, error, isScanning, countdown,
               analysisProgress, currentToken, walletAnalysis, coinScore, fusedSignal,
               abortControllerRef, countdownIntervalRef, aborted, intervals,
               cache, run, started, alerts >>

cacheSpecVars == << cacheOps, lastOp, lastSet >>

vars == << pipeVars, now, clockSteps, cacheSpecVars >>

RunInit ==
    [pc |-> "idle", outcome |-> "none", forceRefresh |-> FALSE, privacy |-> FALSE,
     tokenIdentifier |-> "", tokenInfo |-> NoToken, holderData |-> << >>,
     totalSupply |-> 0, consumed |-> << >>, liquidityPools |-> << >>,
     normalWallets |-> << >>, i |-> 0,
     analyzedHolders |-> << >>, usedCache |-> FALSE, calls |-> << >>, inflight |-> {},
     responses |-> << >>, issued |-> {}, published |-> {}, tokenFailure |-> ""]

\* the state as one record, the argument and result of the segments below
Cur ==
    [searchInput |-> searchInput, privacyMode |-> privacyMode, loading |-> loading,
     error |-> error, isScanning |-> isScanning, countdown |-> countdown,
     analysisProgress |-> analysisProgress, currentToken |-> currentToken,
     walletAnalysis |-> walletAnalysis, coinScore |-> coinScore,
     fusedSignal |-> fusedSignal, abortControllerRef |-> abortControllerRef,
     countdownIntervalRef |-> countdownIntervalRef, aborted |-> aborted,
     intervals |-> intervals, cache |-> cache, now |-> now, run |-> run,
     started |-> started, alerts |-> alerts]

\* the segment's result becomes the next state
Commit(next) ==
    \E s \in {next} :
    /\ searchInput' = s.searchInput
    /\ privacyMode' = s.privacyMode
    /\ loading' = s.loading
    /\ error' = s.error
    /\ isScanning' = s.isScanning
    /\ countdown' = s.countdown
    /\ analysisProgress' = s.analysisProgress
    /\ currentToken' = s.currentToken
    /\ walletAnalysis' = s.walletAnalysis
    /\ coinScore' = s.coinScore
    /\ fusedSignal' = s.fusedSignal
    /\ abortControllerRef' = s.abortControllerRef
    /\ countdownIntervalRef' = s.countdownIntervalRef
    /\ aborted' = s.aborted
    /\ intervals' = s.intervals
    /\ cache' = s.cache
    /\ run' = s.run
    /\ started' = s.started
    /\ alerts' = s.alerts
    /\ UNCHANGED << now, clockSteps, cacheSpecVars >>

(***************************************************************************)
(* A segment is applied to the value of the state it starts from (the     *)
(* bound variable holds the value, so the segment reads it once).          *)
(***************************************************************************)
Apply(Segment(_), state) == CHOOSE next \in {Segment(s) : s \in {state}} : TRUE

(***************************************************************************)
(* stopScanning                                                            *)
(***************************************************************************)
\* (a stop that clears the countdown and forgets the controller without
\* aborting it)
stopScanningWithoutAbort(state) ==
    LET Segment(s) ==
        [s EXCEPT !.isScanning = FALSE,
                  !.abortControllerRef = NoRun,
                  !.intervals = @ \ {s.countdownIntervalRef},
                  !.countdownIntervalRef = NoRun]
    IN Apply(Segment, state)

stopScanning(state) ==
    LET Segment(s) ==
        [s EXCEPT !.isScanning = FALSE,
                  !.aborted = IF s.abortControllerRef # NoRun
                              THEN @ \cup {s.abortControllerRef} ELSE @,
                  !.abortControllerRef = NoRun,
                  !.intervals = @ \ {s.countdownIntervalRef},
                  !.countdownIntervalRef = NoRun]
    IN Apply(Segment, state)

(***************************************************************************)
(* analyzeToken, last segment first.  Each segment takes the state record  *)
(* and the run r whose continuation is executing.                          *)
(***************************************************************************)
\* signal.aborted
SignalAborted(s, r) == r \in s.aborted

\* a return statement: the async function ends
Return(state, r, outcome) ==
    LET Segment(s) ==
        [s EXCEPT !.run[r].pc = "done", !.run[r].outcome = outcome]
    IN Apply(Segment, state)

\* if (countdownIntervalRef.current) clearInterval(countdownIntervalRef.current)
ClearCountdownInterval(state) ==
    LET Segment(s) ==
        [s EXCEPT !.intervals = @ \ {s.countdownIntervalRef}]
    IN Apply(Segment, state)

\* the three statements after the try/catch
Final(state, r, outcome) ==
    LET Segment(s) ==
        Return(ClearCountdownInterval([s EXCEPT !.loading = FALSE, !.isScanning = FALSE]),
               r, outcome)
    IN Apply(Segment, state)

\* (an inner catch around the token lookup that logs the error and lets
\* the run go on to the holder lookup)
OuterCatchContinues(state, r, message) ==
    LET Segment(s) ==
        [s EXCEPT !.run[r].issued = @ \cup {"holders"}, !.run[r].pc = "fetchHolders"]
    IN Apply(Segment, state)

\* catch (err) of the outer try
OuterCatch(state, r, message) ==
    LET Segment(s) ==
        Final([s EXCEPT !.error = IF message = "Scanning stopped"
                                  THEN "Scanning stopped by user"
                                  ELSE IF message = "" THEN "Error analyzing token"
                                  ELSE message],
              r, "error")
    IN Apply(Segment, state)

\* from `if (signal.aborted) return; setWalletAnalysis(...)` to the end
Aggregate(state, r) ==
    LET Segment(s) ==
        IF SignalAborted(s, r)
        THEN Return(s, r, "cancelled")
        ELSE Final([s EXCEPT !.walletAnalysis = s.run[r].analyzedHolders,
                             !.coinScore = CoinScore(s.run[r].analyzedHolders),
                             !.run[r].published = @ \cup {"walletAnalysis", "coinScore"}],
                   r, "completed")
    IN Apply(Segment, state)

\* catch (error) of the holders try: analyzedHolders = []
HoldersCatch(state, r) ==
    LET Segment(s) ==
        Aggregate([s EXCEPT !.run[r].analyzedHolders = << >>], r)
    IN Apply(Segment, state)

\* the analyzeWalletViaBackend calls one loop iteration starts (indices
\* into normalWallets): the call is awaited, so it is the only one
\* (a loop that does not await: every remaining call goes out at once)
CallsStartedUnawaited(n, i) == [k \in 1..(n - i) |-> i + k]
CallsStarted(n, i) == << i + 1 >>

\* if (signal.aborted) throw new Error('Scanning stopped') at the loop head
\* (a loop head without the check)
LoopNeverAborted(s, r) == FALSE

LoopAborted(s, r) == SignalAborted(s, r)

\* setAnalysisProgress({ current: i + 1, total: normalWallets.length })
\* (the count of the wallets already pushed)
ProgressAfter(i, n) == [current |-> i, total |-> n]

ProgressAt(i, n) == [current |-> i + 1, total |-> n]

\* the head of the scoring loop, up to the await of the next call; after
\* the last wallet: sort, cache, aggregate
LoopHead(state, r) ==
    LET Segment(s) ==
        LET rr == s.run[r]
            n == Len(rr.normalWallets)
        IN IF rr.i < n
           THEN IF LoopAborted(s, r)
                THEN HoldersCatch(s, r)
                ELSE LET startedCalls == CallsStarted(n, rr.i)
                     IN [s EXCEPT !.analysisProgress = ProgressAt(rr.i, n),
                                  !.run[r].pc = "analyze",
                                  !.run[r].issued = @ \cup {"analyze"},
                                  !.run[r].calls = @ \o startedCalls,
                                  !.run[r].inflight =
                                      @ \cup {startedCalls[k] : k \in 1..Len(startedCalls)}]
           ELSE LET sorted == SortByIq(rr.analyzedHolders)
                    key == getCacheKey("holders", rr.tokenInfo.contractAddress)
                IN Aggregate([s EXCEPT !.cache = setCachedData(@, key, sorted, s.now),
                                       !.run[r].published = @ \cup {"holdersCache"},
                                       !.run[r].analyzedHolders = sorted],
                             r)
    IN Apply(Segment, state)

\* the awaited analyzeWalletViaBackend call settles: push the record, i++
AnalyzeSettled(state, r, resp) ==
    LET Segment(s) ==
        LET rr == s.run[r]
            holder == rr.normalWallets[rr.i + 1]
            holdingPercent == HoldingPercent(holder.amount, rr.totalSupply)
            settled == analyzeWalletViaBackend(resp)
        IN LoopHead([s EXCEPT !.alerts = @ \cup RateLimitAlerts(resp),
                              !.run[r].analyzedHolders =
                                  Append(@, ScoredRecord(holder, settled, holdingPercent)),
                              !.run[r].responses = Append(@, ResponseClass(resp)),
                              !.run[r].inflight = @ \ {rr.i + 1},
                              !.run[r].i = @ + 1],
                    r)
    IN Apply(Segment, state)

\* !holderData || holderData.length === 0
\* (a run without the check)
HolderDataNeverMissing(holderData) == FALSE

HolderDataMissing(holderData) == Len(holderData) = 0

\* getTokenSupply settles: the empty-holder check, the classification and
\* the first loop head
SupplySettled(state, r, totalSupply) ==
    LET Segment(s) ==
        LET rr == s.run[r]
        IN IF HolderDataMissing(rr.holderData)
           THEN Return([s EXCEPT !.error = "Failed to retrieve token holders",
                                 !.loading = FALSE,
                                 !.isScanning = FALSE,
                                 !.run[r].totalSupply = totalSupply],
                       r, "holderLookupFailed")
           ELSE LET walletsToAnalyze == Slice(rr.holderData, HOLDER_SLICE)
                IN LoopHead([s EXCEPT !.analysisProgress =
                                          [current |-> 0, total |-> Len(walletsToAnalyze)],
                                      !.run[r].totalSupply = totalSupply,
                                      !.run[r].consumed = walletsToAnalyze,
                                      !.run[r].liquidityPools =
                                          LiquidityPools(walletsToAnalyze, totalSupply),
                                      !.run[r].normalWallets =
                                          NormalWallets(walletsToAnalyze, totalSupply),
                                      !.run[r].analyzedHolders =
                                          LiquidityPools(walletsToAnalyze, totalSupply),
                                      !.run[r].i = 0],
                            r)
    IN Apply(Segment, state)

\* fetchTokenHolders settles; getTokenSupply is awaited next
HoldersSettled(state, r, holderData) ==
    LET Segment(s) ==
        [s EXCEPT !.run[r].holderData = holderData,
                  !.run[r].issued = @ \cup {"supply"},
                  !.run[r].pc = "fetchSupply"]
    IN Apply(Segment, state)

\* (a Step 3 without the cache lookup)
WalletModeWithoutCache(state, r) ==
    LET Segment(s) ==
        IF SignalAborted(s, r)
        THEN Return(s, r, "cancelled")
        ELSE [s EXCEPT !.run[r].issued = @ \cup {"holders"},
                       !.run[r].pc = "fetchHolders"]
    IN Apply(Segment, state)

\* Step 3: the holders cache lookup
WalletMode(state, r) ==
    LET Segment(s) ==
        LET rr == s.run[r]
            key == getCacheKey("holders", rr.tokenInfo.contractAddress)
            got == CacheLookup(rr.forceRefresh, s.cache, key, CACHE_TTL_TOP_HOLDERS, s.now)
            s1 == [s EXCEPT !.cache = got.cache]
        IN IF got.result.found
           THEN Aggregate([s1 EXCEPT !.run[r].analyzedHolders = got.result.data,
                                     !.run[r].usedCache = TRUE],
                          r)
           ELSE IF SignalAborted(s1, r)
                THEN Return(s1, r, "cancelled")
                ELSE [s1 EXCEPT !.run[r].issued = @ \cup {"holders"},
                                !.run[r].pc = "fetchHolders"]
    IN Apply(Segment, state)

\* Step 2: getFusedSignal settles
PrivacyEnd(state, r, outcome) ==
    LET Segment(s) ==
        Return(ClearCountdownInterval([s EXCEPT !.loading = FALSE, !.isScanning = FALSE]),
               r, outcome)
    IN Apply(Segment, state)

FusionSettled(state, r, resp) ==
    LET Segment(s) ==
        IF resp.kind = "throw"
        THEN PrivacyEnd([s EXCEPT !.error = "Failed to analyze token in privacy mode"],
                        r, "privacyError")
        ELSE IF SignalAborted(s, r)
        THEN Return(s, r, "cancelled")
        ELSE IF ~resp.success
        THEN PrivacyEnd([s EXCEPT !.error = "Failed to generate fusion signal"],
                        r, "privacyError")
        ELSE PrivacyEnd([s EXCEPT !.fusedSignal =
                                      [confidence |-> resp.confidence,
                                       direction |-> resp.direction],
                                  !.coinScore = FusionScore(resp),
                                  !.walletAnalysis = << >>,
                                  !.run[r].published =
                                      @ \cup {"fusedSignal", "coinScore", "walletAnalysis"}],
                        r, "privacyResult")
    IN Apply(Segment, state)

\* from `if (signal.aborted) return; setCurrentToken(tokenInfo)` to the
\* next await
AfterToken(state, r, tokenInfo) ==
    LET Segment(s) ==
        IF SignalAborted(s, r)
        THEN Return(s, r, "cancelled")
        ELSE LET s1 == [s EXCEPT !.currentToken = tokenInfo, !.run[r].tokenInfo = tokenInfo]
             IN IF s.run[r].privacy
                THEN [s1 EXCEPT !.run[r].issued = @ \cup {"fusion"},
                                !.run[r].pc = "fusion"]
                ELSE WalletMode(s1, r)
    IN Apply(Segment, state)

\* (a token stage that does not write what it fetched to the cache)
TokenSettledUncached(state, r, resp) ==
    LET Segment(s) ==
        IF resp.kind = "throw"
        THEN OuterCatch([s EXCEPT !.run[r].tokenFailure = resp.message], r, resp.message)
        ELSE IF resp.token = NoToken
        THEN Return([s EXCEPT !.error = "Token not found",
                              !.loading = FALSE,
                              !.isScanning = FALSE],
                    r, "tokenNotFound")
        ELSE AfterToken([s EXCEPT !.run[r].published = @ \cup {"tokenCache"}], r, resp.token)
    IN Apply(Segment, state)

\* fetchTokenInfoByAddress / BySymbol settles
TokenSettled(state, r, resp) ==
    LET Segment(s) ==
        IF resp.kind = "throw"
        THEN OuterCatch([s EXCEPT !.run[r].tokenFailure = resp.message], r, resp.message)
        ELSE IF resp.token = NoToken
        THEN Return([s EXCEPT !.error = "Token not found",
                              !.loading = FALSE,
                              !.isScanning = FALSE],
                    r, "tokenNotFound")
        ELSE LET key == getCacheKey("token_info", s.run[r].tokenIdentifier)
             IN AfterToken([s EXCEPT !.cache = setCachedData(@, key, resp.token, s.now),
                                     !.run[r].published = @ \cup {"tokenCache"}],
                           r, resp.token)
    IN Apply(Segment, state)

\* the locals of an invocation that has returned are gone; the model keeps
\* them until the next invocation starts
Forget(rr) == IF rr.pc = "done" THEN [RunInit EXCEPT !.pc = "done", !.outcome = rr.outcome] ELSE rr

\* analyzeToken(forceRefresh), from the call to the first await
analyzeToken(state, r, forceRefresh) ==
    LET Segment(s) ==
        LET s1 == stopScanning(s)
            tokenIdentifier == Trim(s.searchInput)
            s2 == [s1 EXCEPT !.abortControllerRef = r,
                             !.run = [q \in Runs |-> Forget(s1.run[q])],
                             !.loading = TRUE,
                             !.error = "",
                             !.isScanning = TRUE,
                             !.countdown = COUNTDOWN_START,
                             !.analysisProgress = [current |-> 0, total |-> 0],
                             !.intervals = (@ \ {s1.countdownIntervalRef}) \cup {r},
                             !.countdownIntervalRef = r,
                             !.started = r,
                             !.run[r] = [RunInit EXCEPT !.forceRefresh = forceRefresh,
                                                        !.privacy = s.privacyMode,
                                                        !.tokenIdentifier = tokenIdentifier]]
            key == getCacheKey("token_info", tokenIdentifier)
            got == CacheLookup(forceRefresh, s2.cache, key, CACHE_TTL_TOKEN_INFO, s2.now)
            s3 == [s2 EXCEPT !.cache = got.cache]
        IN IF SignalAborted(s2, r)
           THEN Return(s2, r, "cancelled")
           ELSE IF got.result.found
                THEN AfterToken(s3, r, got.result.data)
                ELSE [s3 EXCEPT !.run[r].issued = @ \cup {"token"},
                                !.run[r].pc = "fetchToken"]
    IN Apply(Segment, state)

(***************************************************************************)
(* Initial state: a mounted Terminal, nothing analysed yet; searchInput is  *)
(* the ?token= parameter when there is one.                                *)
(***************************************************************************)
NoSignal == [confidence |-> 0, direction |-> ""]

Init ==
    /\ searchInput = ""
    /\ privacyMode = TRUE
    /\ loading = FALSE
    /\ error = ""
    /\ isScanning = FALSE
    /\ countdown = COUNTDOWN_START
    /\ analysisProgress = [current |-> 0, total |-> 0]
    /\ currentToken = NoToken
    /\ walletAnalysis = << >>
    /\ coinScore = NoScore
    /\ fusedSignal = NoSignal
    /\ abortControllerRef = NoRun
    /\ countdownIntervalRef = NoRun
    /\ aborted = {}
    /\ intervals = {}
    /\ cache = << >>
    /\ now = 0
    /\ run = [r \in Runs |-> RunInit]
    /\ started = 0
    /\ alerts = {}
    /\ clockSteps = 0
    /\ cacheOps = 0
    /\ lastOp = [kind |-> "none", key |-> "", ttl |-> 0, at |-> 0, result |-> Null]
    /\ lastSet = << >>

(***************************************************************************)
(* Actions.                                                                *)
(***************************************************************************)
\* ANALYZE button, Enter key, or the effect on the ?token= parameter (the
\* effect runs whatever loading and isScanning are).  The text of the search
\* box and the position of the analysis-mode switch are the inputs of the
\* request: setSearchInput and setPrivacyMode only store them, and
\* analyzeToken is the only reader.  forceRefresh is the parameter of
\* analyzeToken.
AnalyzeToken(input, mode, forceRefresh) ==
    /\ started < MaxRuns
    /\ Trim(input) # ""
    /\ Commit(analyzeToken([Cur EXCEPT !.searchInput = input, !.privacyMode = mode],
                           started + 1, forceRefresh))

\* STOP button, or the cleanup of the effect
StopScanning ==
    /\ started > 0
    /\ Commit(stopScanning(Cur))

TokenSettles(r) ==
    /\ run[r].pc = "fetchToken"
    /\ \E resp \in TokenResponses : Commit(TokenSettled(Cur, r, resp))

FusionSettles(r) ==
    /\ run[r].pc = "fusion"
    /\ \E resp \in FusionResponses : Commit(FusionSettled(Cur, r, resp))

HoldersSettle(r) ==
    /\ run[r].pc = "fetchHolders"
    /\ \E holderData \in HolderLists : Commit(HoldersSettled(Cur, r, holderData))

SupplySettles(r) ==
    /\ run[r].pc = "fetchSupply"
    /\ \E totalSupply \in Supplies : Commit(SupplySettled(Cur, r, totalSupply))

AnalyzeSettles(r) ==
    /\ run[r].pc = "analyze"
    /\ \E resp \in AnalyzeResponses : Commit(AnalyzeSettled(Cur, r, resp))

\* prev => (prev <= 1 ? 0 : prev - 1)
\* (the updater without its floor)
TickValueUnguarded(prev) == prev - 1

TickValue(prev) == IF prev <= 1 THEN 0 ELSE prev - 1

\* the setInterval callback: setCountdown(prev => (prev <= 1 ? 0 : prev - 1))
IntervalTick ==
    /\ intervals # {}
    /\ countdown > COUNTDOWN_START - MaxTicks
    /\ countdown' = TickValue(countdown)
    /\ UNCHANGED << searchInput, privacyMode, loading, error, isScanning,
                    analysisProgress, currentToken, walletAnalysis, coinScore,
                    fusedSignal, abortControllerRef, countdownIntervalRef, aborted,
                    intervals, cache, run, started, alerts, now, clockSteps,
                    cacheSpecVars >>

\* time passes
ClockSteps == {CACHE_TTL_TOKEN_INFO, CACHE_TTL_TOKEN_INFO + 1}

ClockAdvance ==
    /\ clockSteps < MaxClockSteps
    /\ \E d \in ClockSteps : now' = now + d
    /\ clockSteps' = clockSteps + 1
    /\ UNCHANGED << pipeVars, cacheSpecVars >>

\* the pipeline: requests, stops and settling network calls
NextPipeline ==
    \/ \E input \in SearchInputs, mode \in BOOLEAN, forceRefresh \in BOOLEAN :
           AnalyzeToken(input, mode, forceRefresh)
    \/ StopScanning
    \/ \E r \in Runs : TokenSettles(r)
    \/ \E r \in Runs : FusionSettles(r)
    \/ \E r \in Runs : HoldersSettle(r)
    \/ \E r \in Runs : SupplySettles(r)
    \/ \E r \in Runs : AnalyzeSettles(r)

Next ==
    \/ NextPipeline
    \/ IntervalTick
    \/ ClockAdvance

Spec == Init /\ [][Next]_vars

(***************************************************************************)
(* The cache on its own: any sequence of setCachedData, getCachedData and  *)
(* clock steps, for every key, payload and ttl of small sets.  lastSet is   *)
(* the history the callers see: per key the payload and the time of the    *)
(* last set, and whether a get has found it expired since.                 *)
(***************************************************************************)
CacheKeys == {getCacheKey("token_info", TokenSymbol), getCacheKey("holders", TokenAddress)}
Payloads == {"payloadA", "payloadB"}
TRENDING_TTL == 30000
Ttls == {TRENDING_TTL, CACHE_TTL_TOKEN_INFO}
CacheClockSteps == {1, TRENDING_TTL}

CacheSetOp(key, payload) ==
    /\ cacheOps < MaxCacheOps
    /\ cache' = setCachedData(cache, key, payload, now)
    /\ lastSet' = CachePut(lastSet, key, [payload |-> payload, at |-> now, expiredSeen |-> FALSE])
    /\ lastOp' = [kind |-> "set", key |-> key, ttl |-> 0, at |-> now, result |-> Null]
    /\ cacheOps' = cacheOps + 1
    /\ UNCHANGED << searchInput, privacyMode, loading, error, isScanning, countdown,
                    analysisProgress, currentToken, walletAnalysis, coinScore,
                    fusedSignal, abortControllerRef, countdownIntervalRef, aborted,
                    intervals, run, started, alerts, now, clockSteps >>

CacheGetOp(key, ttl) ==
    LET got == getCachedData(cache, key, ttl, now)
    IN /\ cacheOps < MaxCacheOps
       /\ cache' = got.cache
       /\ lastSet' = IF key \in DOMAIN lastSet /\ now - lastSet[key].at > ttl
                     THEN [lastSet EXCEPT ![key].expiredSeen = TRUE]
                     ELSE lastSet
       /\ lastOp' = [kind |-> "get", key |-> key, ttl |-> ttl, at |-> now,
                     result |-> got.result]
       /\ cacheOps' = cacheOps + 1
       /\ UNCHANGED << searchInput, privacyMode, loading, error, isScanning, countdown,
                       analysisProgress, currentToken, walletAnalysis, coinScore,
                       fusedSignal, abortControllerRef, countdownIntervalRef, aborted,
                       intervals, run, started, alerts, now, clockSteps >>

CacheClock ==
    /\ cacheOps < MaxCacheOps
    /\ \E d \in CacheClockSteps : now' = now + d
    /\ cacheOps' = cacheOps + 1
    /\ UNCHANGED << pipeVars, clockSteps, lastOp, lastSet >>

NextCache ==
    \/ \E key \in CacheKeys, payload \in Payloads : CacheSetOp(key, payload)
    \/ \E key \in CacheKeys, ttl \in Ttls : CacheGetOp(key, ttl)
    \/ CacheClock

SpecCache == Init /\ [][NextCache]_vars

(***************************************************************************)
(* The classifier on its own.  The pipeline is taken to the point where    *)
(* fetchTokenHolders has settled (a wallet-mode request for ORB, the token  *)
(* found), for every holder list of a larger set: the backend's list comes  *)
(* in any order and may be longer than the slice.  The one step is the      *)
(* segment in which getTokenSupply settles and the classifier runs.        *)
(***************************************************************************)
InitState ==
    [searchInput |-> "", privacyMode |-> TRUE, loading |-> FALSE, error |-> "",
     isScanning |-> FALSE, countdown |-> COUNTDOWN_START,
     analysisProgress |-> [current |-> 0, total |-> 0], currentToken |-> NoToken,
     walletAnalysis |-> << >>, coinScore |-> NoScore, fusedSignal |-> NoSignal,
     abortControllerRef |-> NoRun, countdownIntervalRef |-> NoRun, aborted |-> {},
     intervals |-> {}, cache |-> << >>, now |-> 0, run |-> [r \in Runs |-> RunInit],
     started |-> 0, alerts |-> {}]

\* the state is the record s, nothing else has happened
Start(s) ==
    /\ searchInput = s.searchInput
    /\ privacyMode = s.privacyMode
    /\ loading = s.loading
    /\ error = s.error
    /\ isScanning = s.isScanning
    /\ countdown = s.countdown
    /\ analysisProgress = s.analysisProgress
    /\ currentToken = s.currentToken
    /\ walletAnalysis = s.walletAnalysis
    /\ coinScore = s.coinScore
    /\ fusedSignal = s.fusedSignal
    /\ abortControllerRef = s.abortControllerRef
    /\ countdownIntervalRef = s.countdownIntervalRef
    /\ aborted = s.aborted
    /\ intervals = s.intervals
    /\ cache = s.cache
    /\ now = s.now
    /\ run = s.run
    /\ started = s.started
    /\ alerts = s.alerts
    /\ clockSteps = 0
    /\ cacheOps = 0
    /\ lastOp = [kind |-> "none", key |-> "", ttl |-> 0, at |-> 0, result |-> Null]
    /\ lastSet = << >>

TokenFound == [kind |-> "found", token |-> TheToken, message |-> ""]

\* a wallet-mode request for ORB whose token lookup and holder lookup have
\* settled
HoldersFetched(holderData) ==
    LET requested == analyzeToken([InitState EXCEPT !.searchInput = " ORB ",
                                                    !.privacyMode = FALSE], 1, FALSE)
    IN HoldersSettled(TokenSettled(requested, 1, TokenFound), 1, holderData)

ClassifierAmounts == {240, 9996, 9999, 10000}
ClassifierSupplies == {0, 20000, 40000}
HolderNames == [k \in 1..4 |-> <<"H1", "H2", "H3", "H4">>[k]]
LongList == [k \in 1..(HOLDER_SLICE + 1) |-> Holder(<<"L", k>>, 100)]

ClassifierLists ==
    {LongList} \cup
    UNION { { [k \in 1..n |-> Holder(HolderNames[k], amounts[k])] :
                amounts \in [1..n -> ClassifierAmounts] } : n \in 1..MaxHolders }

InitClassifier == \E holderData \in ClassifierLists : Start(HoldersFetched(holderData))

Classify(totalSupply) ==
    /\ run[1].pc = "fetchSupply"
    /\ Commit(SupplySettled(Cur, 1, totalSupply))

NextClassifier == \E totalSupply \in ClassifierSupplies : Classify(totalSupply)

SpecClassifier == InitClassifier /\ [][NextClassifier]_vars

(***************************************************************************)
(* Classification, scoring and aggregation on their own, for wallet data   *)
(* and holdings chosen around the thresholds of the aggregator: of a       *)
(* supply of 40000 the amounts are 0.00, 0.50, 0.60, 1.00, 2.00 and 51.00   *)
(* percent.  A list of 22 holders of 0.60 percent, each answered with the   *)
(* same wallet data, takes the count of major holders past its cap.        *)
(***************************************************************************)
ScoringAmounts == {1, 200, 240, 400, 800, 20400}
ScoringSupplies == {0, 40000}

MajorHolderData == WalletBody(75, "60.0", 9, 11, 2, "SMART MONEY", 18, 1690000)

ScoringResponses ==
    { [kind |-> "ok", status |-> 200,
       body |-> WalletBody(80, "75.0", 12, 15, 3, "DIAMOND HANDS", 17, 1690000), resets_at |-> 0],
      [kind |-> "ok", status |-> 200,
       body |-> WalletBody(40, "20.0", 30, 4, 1, "PAPER HANDS", 17, 1690000), resets_at |-> 0],
      [kind |-> "ok", status |-> 200, body |-> MajorHolderData, resets_at |-> 0],
      [kind |-> "ok", status |-> 200,
       body |-> WalletBody(74, "55.0", 8, 10, 2, "SWING TRADER", 18, 1690000), resets_at |-> 0],
      [kind |-> "ok", status |-> 200, body |-> EmptyBody, resets_at |-> 0],
      [kind |-> "networkError", status |-> 0, body |-> EmptyBody, resets_at |-> 0] }

LongMajorList == [k \in 1..22 |-> Holder(<<"M", k>>, 240)]

ScoringLists ==
    {LongMajorList} \cup
    UNION { { [k \in 1..n |-> Holder(HolderNames[k], amounts[k])] :
                amounts \in [1..n -> ScoringAmounts] } : n \in 1..MaxScored }

InitScoring == \E holderData \in ScoringLists : Start(HoldersFetched(holderData))

ScoringClassify(totalSupply) ==
    /\ run[1].pc = "fetchSupply"
    /\ run[1].holderData = LongMajorList => totalSupply # 0
    /\ Commit(SupplySettled(Cur, 1, totalSupply))

Score(resp) ==
    /\ run[1].pc = "analyze"
    /\ run[1].holderData = LongMajorList => resp.body = MajorHolderData
    /\ Commit(AnalyzeSettled(Cur, 1, resp))

NextScoring ==
    \/ \E totalSupply \in ScoringSupplies : ScoringClassify(totalSupply)
    \/ \E resp \in ScoringResponses : Score(resp)

SpecScoring == InitScoring /\ [][NextScoring]_vars

(***************************************************************************)
(* The aggregator on its own: the statements after the holders block, from *)
(* `if (signal.aborted) return` on, for every analysed-holder list of a    *)
(* bounded set.  The lists are the ones the holders block leaves behind:   *)
(* scored records of holders of 1.00 and 2.00 percent of a supply of 40000 *)
(* sorted by iq, synthetic pool records (of a supply of 1600, where 400 is *)
(* 25 percent, and of a supply of 0), and the empty list, which the catch  *)
(* of the holders block assigns when the block throws (a holder whose      *)
(* amount is not a Number makes holder.amount.toFixed throw).              *)
(***************************************************************************)
AggregatorAmounts == {400, 800}
AggregatorSupply == 40000
PoolSupplies == {0, 1600}

AggregatorResponses ==
    { [kind |-> "ok", status |-> 200,
       body |-> WalletBody(100, "90.0", 20, 18, 5, "WHALE", 18, 1690000), resets_at |-> 0],
      [kind |-> "ok", status |-> 200,
       body |-> WalletBody(80, "75.0", 12, 15, 3, "DIAMOND HANDS", 17, 1690000), resets_at |-> 0],
      [kind |-> "ok", status |-> 200,
       body |-> WalletBody(74, "55.0", 8, 10, 2, "SWING TRADER", 18, 1690000), resets_at |-> 0],
      [kind |-> "ok", status |-> 200,
       body |-> WalletBody(40, "20.0", 30, 4, 1, "PAPER HANDS", 17, 1690000), resets_at |-> 0],
      [kind |-> "ok", status |-> 200, body |-> EmptyBody, resets_at |-> 0] }

ScoredLists(n) ==
    { SortByIq([k \in 1..n |->
                  ScoredRecord(Holder(HolderNames[k], amounts[k]),
                               analyzeWalletViaBackend(resps[k]),
                               HoldingPercent(amounts[k], AggregatorSupply))]) :
        amounts \in [1..n -> AggregatorAmounts], resps \in [1..n -> AggregatorResponses] }

PoolLists(n) ==
    { [k \in 1..n |-> LiquidityPoolRecord(Holder(HolderNames[k], 400),
                                          HoldingPercent(400, totalSupply))] :
        totalSupply \in PoolSupplies }

AggregatorLists ==
    {<< >>} \cup UNION { ScoredLists(n) \cup PoolLists(n) : n \in 1..MaxAggregated }

\* the holders block has ended with analyzedHolders (the holder list is not
\* read again)
AfterHoldersBlock(analyzedHolders) ==
    LET holderData == [k \in 1..Len(analyzedHolders) |->
                         Holder(analyzedHolders[k].address, analyzedHolders[k].holdingAmount)]
    IN [HoldersFetched(holderData) EXCEPT !.run[1].analyzedHolders = analyzedHolders,
                                          !.run[1].pc = "aggregate"]

InitAggregator ==
    \E analyzedHolders \in AggregatorLists : Start(AfterHoldersBlock(analyzedHolders))

AggregateHolders ==
    /\ run[1].pc = "aggregate"
    /\ Commit(Aggregate(Cur, 1))

NextAggregator == AggregateHolders

SpecAggregator == InitAggregator /\ [][NextAggregator]_vars

(***************************************************************************)
(* Classification and scoring of holder lists around the length of the     *)
(* slice: one holder short of it, exactly as long, and up to               *)
(* MaxBeyondSlice holders longer.  The first holder has 25.00 percent of a *)
(* supply of 40000 and the others 0.25 percent; every analyze call is      *)
(* answered with the same empty body.                                      *)
(***************************************************************************)
SliceList(n) == [k \in 1..n |-> Holder(<<"L", k>>, IF k = 1 THEN 10000 ELSE 100)]

SliceLists == { SliceList(n) : n \in (HOLDER_SLICE - 1)..(HOLDER_SLICE + MaxBeyondSlice) }

SliceResponse == [kind |-> "ok", status |-> 200, body |-> EmptyBody, resets_at |-> 0]

InitSlice == \E holderData \in SliceLists : Start(HoldersFetched(holderData))

SliceClassify(totalSupply) ==
    /\ run[1].pc = "fetchSupply"
    /\ Commit(SupplySettled(Cur, 1, totalSupply))

SliceScore ==
    /\ run[1].pc = "analyze"
    /\ Commit(AnalyzeSettled(Cur, 1, SliceResponse))

NextSlice ==
    \/ \E totalSupply \in Supplies : SliceClassify(totalSupply)
    \/ SliceScore

SpecSlice == InitSlice /\ [][NextSlice]_vars

(***************************************************************************)
(* The countdown on its own: analysis requests, stops and the ticks of the *)
(* interval, as many as the timer delivers while an interval is set (the   *)
(* network calls of the runs stay pending; none of their continuations     *)
(* writes the countdown).                                                  *)
(***************************************************************************)
CountdownTick ==
    /\ intervals # {}
    /\ countdown' = TickValue(countdown)
    /\ UNCHANGED << searchInput, privacyMode, loading, error, isScanning,
                    analysisProgress, currentToken, walletAnalysis, coinScore,
                    fusedSignal, abortControllerRef, countdownIntervalRef, aborted,
                    intervals, cache, run, started, alerts, now, clockSteps,
                    cacheSpecVars >>

NextCountdown ==
    \/ \E input \in SearchInputs, mode \in BOOLEAN, forceRefresh \in BOOLEAN :
           AnalyzeToken(input, mode, forceRefresh)
    \/ StopScanning
    \/ CountdownTick

SpecCountdown == Init /\ [][NextCountdown]_vars

(***************************************************************************)
(* Fairness: an awaited analyzeWalletViaBackend call settles.  The clock    *)
(* and the countdown ticks are left out: no step of the pipeline waits for *)
(* them, and the scoring loop reads neither.                               *)
(***************************************************************************)
FairSpec ==
    /\ Init
    /\ [][NextPipeline]_vars
    /\ \A r \in Runs : WF_vars(AnalyzeSettles(r))

(***************************************************************************)
(* Properties.                                                             *)
(***************************************************************************)
StartedRuns == 1..started

\* the run went through classification and its locals are still there
Classified(r) ==
    /\ run[r].consumed # << >>
    /\ \/ run[r].pc = "analyze"
       \/ run[r].pc = "done" /\ run[r].outcome = "completed" /\ ~run[r].usedCache

\* the run completed its scoring loop (no cache hit) and its locals are
\* still there
LoopCompleted(r) ==
    /\ run[r].consumed # << >>
    /\ run[r].pc = "done" /\ run[r].outcome = "completed" /\ ~run[r].usedCache

RecordsOf(r, address) ==
    {k \in 1..Len(run[r].analyzedHolders) : run[r].analyzedHolders[k].address = address}

\* the addresses passed to analyzeWalletViaBackend by run r so far
CalledAddresses(r) ==
    {run[r].normalWallets[run[r].calls[k]].address : k \in 1..Len(run[r].calls)}

\* C1: once the signal of a run is aborted, the run starts no further
\* analyzeWalletViaBackend call (the call in flight may still settle).
NoCallAfterCancel ==
    [][\A r \in Runs : r \in aborted => Len(run'[r].calls) <= Len(run[r].calls)]_vars

\* C1 witness: a run cancelled after its first call and before its second
CancelledMidScoring ==
    \E r \in Runs :
        /\ r \in aborted
        /\ run[r].pc = "done" /\ run[r].outcome = "cancelled"
        /\ Len(run[r].calls) = 1
        /\ Len(run[r].normalWallets) = 2

\* C2: at most one started run holds a signal that is not aborted.
AtMostOneActiveRun ==
    Cardinality({r \in StartedRuns : r \notin aborted}) <= 1

\* C2 witness: a second run started while the first was still awaiting
SupersededInFlight ==
    /\ started = 2
    /\ 1 \in aborted
    /\ run[1].pc \notin {"idle", "done"}
    /\ 2 \notin aborted

\* C3 as claimed: when every run has ended, no countdown interval is
\* ticking.
CountdownClearedAtEnd ==
    (started > 0 /\ \A r \in StartedRuns : run[r].pc = "done") => intervals = {}

\* C4 as claimed: a run stopped by request while scoring leaves the error
\* text 'Scanning stopped by user' (until a newer run resets it).
CancelledRunInformsCaller ==
    \A r \in Runs :
        ( /\ r = started
          /\ run[r].pc = "done" /\ run[r].outcome = "cancelled"
          /\ Len(run[r].calls) > 0 )
        => error = "Scanning stopped by user"

\* C5: a failed analyze call for a wallet leaves exactly the degraded record
\* for that wallet (ERROR, iq 50, winRate '0.0', zero scores, the wallet's
\* amount and percent), and the loop goes on: while the run is scoring the
\* next call is out, and at the end every ordinary wallet was called.
IsDegradedRecord(rec, holder, totalSupply) ==
    /\ rec.address = holder.address
    /\ rec.pattern = "ERROR" /\ rec.iq = 50 /\ rec.winRate = "0.0"
    /\ rec.trades = 0 /\ rec.tradesScore = 0 /\ rec.holdScore = 0
    /\ rec.holdingAmount = holder.amount
    /\ rec.holdingPercent =
           Pct((2 * holder.amount * 10000 + totalSupply) \div (2 * totalSupply))

FailureYieldsDegradedRecord ==
    \A r \in Runs :
        /\ Classified(r) =>
              \A k \in 1..Len(run[r].responses) :
                  run[r].responses[k] # "ok" =>
                      \E j \in 1..Len(run[r].analyzedHolders) :
                          /\ IsDegradedRecord(run[r].analyzedHolders[j],
                                              run[r].normalWallets[k], run[r].totalSupply)
                          /\ RecordsOf(r, run[r].normalWallets[k].address) = {j}
        /\ run[r].pc = "analyze" => Len(run[r].calls) = Len(run[r].responses) + 1
        /\ LoopCompleted(r) =>
              /\ Len(run[r].responses) = Len(run[r].normalWallets)
              /\ Len(run[r].calls) = Len(run[r].normalWallets)

\* C5 witness: the first of two wallets failed and the run completed
CompletedAfterFailure ==
    \E r \in Runs :
        /\ LoopCompleted(r)
        /\ Len(run[r].responses) = 2
        /\ run[r].responses[1] = "failed"

\* C6 as claimed: after a 429 for wallet k the run issues no later call and
\* produces no composite score.
RateLimitAbortsRun ==
    \A r \in Runs :
        \A k \in 1..Len(run[r].responses) :
            run[r].responses[k] = "rateLimited" =>
                /\ Len(run[r].calls) <= k
                /\ run[r].outcome # "completed"

\* C7: every scoring loop ends, and a loop that was not cancelled ends with
\* exactly one record per consumed holder: a LIQUIDITY POOL record for a
\* liquidity-pool holder, a scored or degraded record for an ordinary one.
OneRecordPerHolder(r) ==
    /\ Len(run[r].analyzedHolders) = Len(run[r].consumed)
    /\ \A k \in 1..Len(run[r].consumed) :
          LET h == run[r].consumed[k]
              recs == RecordsOf(r, h.address)
              IsPoolRecord(j) == run[r].analyzedHolders[j].pattern = "LIQUIDITY POOL"
          IN /\ Cardinality(recs) = 1
             /\ \A j \in recs : IsPoolRecord(j) <=> h.address \notin CalledAddresses(r)

ScoringLoopTerminates ==
    \A r \in Runs :
        (run[r].pc = "analyze") ~>
            /\ run[r].pc = "done"
            /\ r \notin aborted => LoopCompleted(r) /\ OneRecordPerHolder(r)

\* C7 witness: a completed loop over a list with a pool and an ordinary
\* wallet
CompletedMixedList ==
    \E r \in Runs :
        /\ LoopCompleted(r)
        /\ Len(run[r].consumed) = 3
        /\ Len(run[r].calls) = 1

\* C8: the calls of a run go out one at a time, in list order; the next one
\* only after the previous one has settled.
SequentialScoring ==
    \A r \in Runs :
        /\ Cardinality(run[r].inflight) <= 1
        /\ \A k \in 1..Len(run[r].calls) : run[r].calls[k] = k
        /\ Len(run[r].calls) <= Len(run[r].normalWallets)
        /\ IF run[r].inflight = {}
           THEN Len(run[r].responses) = Len(run[r].calls)
           ELSE /\ run[r].inflight = {Len(run[r].calls)}
                /\ Len(run[r].responses) = Len(run[r].calls) - 1

\* C8 witness: the second call is out, the first has settled
SecondCallOutstanding ==
    \E r \in Runs :
        /\ run[r].pc = "analyze"
        /\ run[r].inflight = {2}
        /\ Len(run[r].responses) = 1

\* C9: a get on a key answers with the payload of the last set and keeps
\* the entry, unless there was no set or a get (this one included) has found
\* the entry older than its ttl since: then it answers absent and the key
\* is not in the cache.
CacheGetContract ==
    lastOp.kind = "get" =>
        LET k == lastOp.key
        IN IF k \notin DOMAIN lastSet
           THEN lastOp.result = Null /\ k \notin DOMAIN cache
           ELSE IF lastSet[k].expiredSeen
           THEN /\ lastOp.result = Null
                /\ k \notin DOMAIN cache
           ELSE /\ lastOp.at - lastSet[k].at <= lastOp.ttl
                /\ lastOp.result = Some(lastSet[k].payload)
                /\ k \in DOMAIN cache
                /\ cache[k] = [data |-> lastSet[k].payload, timestamp |-> lastSet[k].at]

\* C9 witnesses: a get at age exactly ttl hits; the same entry one
\* millisecond later is gone
GetAfterExpiry ==
    /\ lastOp.kind = "get"
    /\ lastOp.key \in DOMAIN lastSet
    /\ lastOp.at - lastSet[lastOp.key].at = lastOp.ttl + 1
    /\ lastOp.result = Null

\* C10 as claimed: a consumed holder is a liquidity pool exactly when its
\* share of the supply is at least 25 percent.
ShareAtLeast(holder, totalSupply, thousandths) ==
    holder.amount * 100 * 1000 >= thousandths * totalSupply

ClassifiedAsPool(r, holder) ==
    /\ \E j \in RecordsOf(r, holder.address) :
          LET rec == run[r].analyzedHolders[j]
          IN /\ rec.pattern = "LIQUIDITY POOL"
             /\ rec.iq = 0 /\ rec.trades = 0 /\ rec.portfolio = 0 /\ rec.holdScore = 0
    /\ holder.address \notin CalledAddresses(r)
    /\ \A k \in 1..Len(run[r].normalWallets) : run[r].normalWallets[k] # holder

PassedToScoring(r, holder) ==
    /\ \E k \in 1..Len(run[r].normalWallets) : run[r].normalWallets[k] = holder
    /\ LoopCompleted(r) => holder.address \in CalledAddresses(r)
    /\ \A j \in RecordsOf(r, holder.address) :
          run[r].analyzedHolders[j].pattern # "LIQUIDITY POOL"

PoolIffShareAtLeast25 ==
    \A r \in Runs :
        Classified(r) =>
            \A k \in 1..Len(run[r].consumed) :
                LET h == run[r].consumed[k]
                IN IF ShareAtLeast(h, run[r].totalSupply, 25000)
                   THEN ClassifiedAsPool(r, h)
                   ELSE PassedToScoring(r, h)

\* C10 amended: the threshold is applied to the share rounded to two
\* decimals, so the pools are the holders with at least 24.995 percent.
PoolIffRoundedShareAtLeast25 ==
    \A r \in Runs :
        Classified(r) =>
            \A k \in 1..Len(run[r].consumed) :
                LET h == run[r].consumed[k]
                IN IF ShareAtLeast(h, run[r].totalSupply, 24995)
                   THEN ClassifiedAsPool(r, h)
                   ELSE PassedToScoring(r, h)

\* C10 witness: a list with a holder at exactly 25.00 and one at 24.99
BoundaryHoldersClassified ==
    \E r \in Runs :
        /\ LoopCompleted(r)
        /\ run[r].totalSupply = 40000
        /\ \E k \in 1..Len(run[r].consumed) : run[r].consumed[k].amount = 10000
        /\ \E k \in 1..Len(run[r].normalWallets) : run[r].normalWallets[k].amount = 9996

\* C11: the classifier partitions the consumed holders: the pools and the
\* ordinary wallets together are as many as the holders, and every holder is
\* in exactly one of the two lists.
InBucket(list, address) == {k \in 1..Len(list) : list[k].address = address}

ClassificationPartitions ==
    \A r \in Runs :
        Classified(r) =>
            /\ Len(run[r].liquidityPools) + Len(run[r].normalWallets) = Len(run[r].consumed)
            /\ \A k \in 1..Len(run[r].consumed) :
                  LET a == run[r].consumed[k].address
                  IN Cardinality(InBucket(run[r].liquidityPools, a))
                       + Cardinality(InBucket(run[r].normalWallets, a)) = 1

\* C11 witness: a classified list with pools and ordinary wallets, the
\* holder at exactly 25.00 percent among them
BothBucketsFilled ==
    \E r \in Runs :
        /\ Classified(r)
        /\ Len(run[r].liquidityPools) = 2
        /\ Len(run[r].normalWallets) = 1
        /\ run[r].totalSupply = 40000
        /\ \E k \in 1..Len(run[r].liquidityPools) :
               run[r].liquidityPools[k].holdingAmount = 10000

\* C12: a run whose token lookup failed has ended in the error outcome (its
\* catch block has set the error text); it called no other provider and no
\* analyze service, and published nothing.
TokenFailureIsTerminal ==
    \A r \in Runs :
        run[r].tokenFailure # "" =>
            /\ run[r].pc = "done" /\ run[r].outcome = "error"
            /\ run[r].issued = {"token"}
            /\ run[r].calls = << >>
            /\ run[r].published = {}
            /\ error # ""

\* C12 witness: the latest run ended on 'Token not found'
TokenNotFoundReached ==
    \E r \in Runs :
        /\ r = started
        /\ run[r].tokenFailure = "Token not found"
        /\ run[r].pc = "done"
        /\ error = "Token not found"
        /\ ~loading

\* C13 as claimed: a run whose holder lookup or supply lookup failed ends
\* with an error, without an analyze call and without a composite score; a
\* run with a failed analyze call that was not cancelled still completes.
HolderLookupFailed(r) ==
    /\ "supply" \in run[r].issued /\ run[r].pc # "fetchSupply"
    /\ run[r].holderData = << >>

SupplyLookupFailed(r) ==
    /\ "supply" \in run[r].issued /\ run[r].pc # "fetchSupply"
    /\ run[r].holderData # << >>
    /\ run[r].totalSupply = 0

StageFailureAbortsRun ==
    \A r \in Runs :
        /\ (HolderLookupFailed(r) \/ SupplyLookupFailed(r)) =>
              /\ run[r].pc = "done"
              /\ run[r].outcome \in {"error", "holderLookupFailed"}
              /\ run[r].calls = << >>
              /\ "coinScore" \notin run[r].published
        /\ (run[r].pc = "done" /\ r \notin aborted /\ run[r].responses # << >>) =>
              run[r].outcome = "completed"

\* C14: when a wallet-mode run without forceRefresh reaches the holders
\* stage and the cache holds an entry for the token's address no older than
\* the TTL, the run ends in that step: it calls neither the holder provider
\* nor the supply provider nor the analyze service, and it publishes the
\* cached list and the composite score of exactly that list.
ReachesHoldersStage(r) ==
    /\ run[r].tokenInfo = NoToken
    /\ run'[r].tokenInfo # NoToken
    /\ ~run'[r].privacy

FreshHoldersEntry(address) ==
    LET key == getCacheKey("holders", address)
    IN /\ key \in DOMAIN cache
       /\ now - cache[key].timestamp <= CACHE_TTL_TOP_HOLDERS

CachedHoldersSkipScoring ==
    [][\A r \in Runs :
          ( /\ ReachesHoldersStage(r)
            /\ ~run'[r].forceRefresh
            /\ FreshHoldersEntry(run'[r].tokenInfo.contractAddress) )
          => LET data == cache[getCacheKey("holders", run'[r].tokenInfo.contractAddress)].data
             IN /\ run'[r].pc = "done" /\ run'[r].outcome = "completed"
                /\ run'[r].usedCache
                /\ run'[r].issued \cap {"holders", "supply", "analyze"} = {}
                /\ run'[r].calls = << >>
                /\ walletAnalysis' = data
                /\ coinScore' = CoinScore(data)]_vars

\* C14 witness: a run served from a holders entry whose age is exactly the
\* TTL
ServedFromHoldersCache ==
    \E r \in Runs :
        /\ run[r].usedCache
        /\ run[r].outcome = "completed"
        /\ ~run[r].forceRefresh
        /\ now = CACHE_TTL_TOP_HOLDERS
        /\ Len(walletAnalysis) = 3
        /\ "walletAnalysis" \in run[r].published

\* C15: the overall score published for a non-empty record list is the
\* floor of 0.5 * weightedAvgIQ + 0.3 * smartMoneyPercent + min(major, 20):
\* with W the sum of iq * holdingPercent, T the sum of holdingPercent, n the
\* number of records, smart the number with iq >= 75 and major the number
\* with holdingPercent > 0.5 and holdScore > 17, the score x is the integer
\* with x <= W / (2 T) + 30 smart / n + min(major, 20) < x + 1 (the first
\* term is 0 when T is 0).  A list with an infinite holdingPercent has no
\* such value: the formula is NaN in floating point, and so is the score.
FormulaValueIs(list, x) ==
    LET n == Len(list)
        W == LET S[k \in 0..n] ==
                     IF k = 0 THEN 0 ELSE S[k - 1] + list[k].iq * list[k].holdingPercent.v
             IN S[n]
        T == LET S[k \in 0..n] ==
                     IF k = 0 THEN 0 ELSE S[k - 1] + list[k].holdingPercent.v
             IN S[n]
        smart == Cardinality({k \in 1..n : list[k].iq >= 75})
        count == Cardinality({k \in 1..n : /\ list[k].holdingPercent.v > 50
                                            /\ list[k].holdScore > 17})
        major == IF count > 20 THEN 20 ELSE count
    IN IF T > 0
       THEN /\ 2 * T * n * x <= W * n + 60 * smart * T + 2 * T * n * major
            /\ W * n + 60 * smart * T + 2 * T * n * major < 2 * T * n * (x + 1)
       ELSE /\ n * x <= 30 * smart + n * major
            /\ 30 * smart + n * major < n * (x + 1)

PublishedByWalletRun ==
    /\ run[1].pc = "done" /\ run[1].outcome = "completed"
    /\ walletAnalysis # << >>

CompositeScoreFormula ==
    PublishedByWalletRun =>
        IF \E k \in 1..Len(walletAnalysis) : walletAnalysis[k].holdingPercent.inf
        THEN coinScore.nan
        ELSE ~coinScore.nan /\ FormulaValueIs(walletAnalysis, coinScore.overall)

(***************************************************************************)
(* C16.  The rating follows from the overall score: for a non-empty list   *)
(* whose score is a number it is ELITE from 80, SMART from 60 to 79,       *)
(* AVERAGE from 40 to 59 and DEGEN below 40; the published score is        *)
(* overall 0 with rating UNKNOWN exactly when the aggregator's input list  *)
(* is empty, so no non-empty list is rated UNKNOWN.                        *)
(***************************************************************************)
Aggregated == run[1].pc = "done" /\ run[1].outcome = "completed"

RatingFollowsScore ==
    Aggregated =>
        /\ (walletAnalysis # << >> /\ ~coinScore.nan) =>
              /\ coinScore.overall >= 80 => coinScore.rating = "ELITE"
              /\ (coinScore.overall >= 60 /\ coinScore.overall < 80) =>
                     coinScore.rating = "SMART"
              /\ (coinScore.overall >= 40 /\ coinScore.overall < 60) =>
                     coinScore.rating = "AVERAGE"
              /\ coinScore.overall < 40 => coinScore.rating = "DEGEN"
        /\ coinScore.rating = "UNKNOWN" <=> walletAnalysis = << >>
        /\ walletAnalysis = << >> => coinScore.overall = 0 /\ ~coinScore.nan

\* a non-empty list with score 0 has been rated (DEGEN, not UNKNOWN)
ZeroScoreOfNonEmptyList ==
    /\ Aggregated
    /\ walletAnalysis # << >>
    /\ ~coinScore.nan /\ coinScore.overall = 0
    /\ coinScore.rating = "DEGEN"

(***************************************************************************)
(* C17 as claimed: a wallet-mode run whose holder provider returned an     *)
(* empty holder set ends by publishing the composite score overall 0,      *)
(* rating UNKNOWN.                                                         *)
(***************************************************************************)
EmptyHolderSetScoredUnknown ==
    \A r \in Runs :
        (HolderLookupFailed(r) /\ run[r].pc = "done" /\ r = started) =>
            /\ "coinScore" \in run[r].published
            /\ coinScore.overall = 0 /\ coinScore.rating = "UNKNOWN"

\* C17 as the code has it: the step in which a wallet-mode run finds the
\* holder set empty ends the run with the error 'Failed to retrieve token
\* holders'; it publishes no wallet-analysis list and no composite score
\* (both are left as they were), writes nothing to the cache and starts no
\* analyze call.
EmptyHolderSetEndsWithError ==
    [][\A r \in Runs :
         (run[r].pc = "fetchSupply" /\ run[r].holderData = << >> /\ run'[r].pc # "fetchSupply") =>
             /\ run'[r].pc = "done" /\ run'[r].outcome = "holderLookupFailed"
             /\ error' = "Failed to retrieve token holders"
             /\ ~loading' /\ ~isScanning'
             /\ coinScore' = coinScore /\ walletAnalysis' = walletAnalysis
             /\ cache' = cache
             /\ run'[r].published \cap {"walletAnalysis", "coinScore", "holdersCache"} = {}
             /\ run'[r].calls = << >>]_vars

\* C17 witness: the latest run has ended on an empty holder set, with the
\* error shown and no composite score
EmptyHolderSetReached ==
    \E r \in Runs :
        /\ r = started
        /\ HolderLookupFailed(r) /\ run[r].pc = "done"
        /\ run[r].outcome = "holderLookupFailed"
        /\ error = "Failed to retrieve token holders"
        /\ coinScore = NoScore /\ walletAnalysis = << >>

(***************************************************************************)
(* C18 as claimed: a run that is cancelled while an analyze call is        *)
(* outstanding publishes neither the wallet-analysis list nor the          *)
(* composite score and writes no entry to the holders cache, in the step   *)
(* that follows as in every earlier one, however many wallets it had       *)
(* scored.                                                                 *)
(***************************************************************************)
CancelledRunDiscardsResults ==
    [][\A r \in Runs :
         (r \in aborted /\ run[r].pc = "analyze") =>
             run'[r].published \cap {"walletAnalysis", "coinScore", "holdersCache"} = {}]_vars

EvictionIsLazyAndLocal ==
    [][\A k \in CacheKeys :
         LET operation == cacheOps' = cacheOps + 1 /\ now' = now
             onKey == operation /\ lastOp'.key = k
         IN /\ (k \in DOMAIN cache /\ k \notin DOMAIN cache') =>
                  /\ onKey /\ lastOp'.kind = "get"
                  /\ now - cache[k].timestamp > lastOp'.ttl
            /\ (k \in DOMAIN cache /\ ~onKey) =>
                  (k \in DOMAIN cache' /\ cache'[k] = cache[k])
            /\ (k \notin DOMAIN cache /\ ~onKey) => k \notin DOMAIN cache']_vars

\* C20 witness: the entry of one key has been evicted by a get on it, and
\* the older entry of the other key, past the same ttl, is still there
EvictedWhileOtherStays ==
    \E k \in CacheKeys, other \in CacheKeys :
        /\ k # other
        /\ lastOp.kind = "get" /\ lastOp.key = k /\ lastOp.result = Null
        /\ k \in DOMAIN lastSet /\ k \notin DOMAIN cache
        /\ other \in DOMAIN cache
        /\ now - cache[other].timestamp > lastOp.ttl

(***************************************************************************)
(* C21.  A cache entry is never updated in place.  A step in which a run   *)
(* is served from the cache (the token at the start of the run, the        *)
(* holders list at Step 3) leaves the entry it read, data and timestamp,   *)
(* as it is.  An entry appears or changes only in a step of a run that     *)
(* had missed the cache or was forced to refresh and so called the         *)
(* provider for that key, and the entry then carries the time of the       *)
(* write.                                                                  *)
(***************************************************************************)
TokenKeyOf(rr) == getCacheKey("token_info", rr.tokenIdentifier)
HoldersKeyOf(rr) == getCacheKey("holders", rr.tokenInfo.contractAddress)

\* the step starts run r, and the token of r comes from the cache
TokenHitStep(r) ==
    /\ started' = r /\ started # r
    /\ "token" \notin run'[r].issued

\* the step takes run r through Step 3 with a cached holders list
HoldersHitStep(r) == run'[r].usedCache /\ ~run[r].usedCache

\* the step resumes run r after a provider or analyze call
ResumeStep(r) ==
    /\ run[r].pc \in {"fetchToken", "fetchSupply", "analyze"}
    /\ run'[r].pc # run[r].pc \/ run'[r].responses # run[r].responses

NeverUpdatedInPlace ==
    [][/\ \A r \in Runs :
            /\ TokenHitStep(r) =>
                  /\ TokenKeyOf(run'[r]) \in DOMAIN cache
                  /\ cache'[TokenKeyOf(run'[r])] = cache[TokenKeyOf(run'[r])]
            /\ HoldersHitStep(r) =>
                  /\ HoldersKeyOf(run'[r]) \in DOMAIN cache
                  /\ cache'[HoldersKeyOf(run'[r])] = cache[HoldersKeyOf(run'[r])]
       /\ \A k \in DOMAIN cache' :
            (k \notin DOMAIN cache \/ cache'[k] # cache[k]) =>
                /\ cache'[k].timestamp = now
                /\ \E r \in Runs :
                      /\ ResumeStep(r)
                      /\ IF k[1] = "token_info"
                         THEN /\ k = TokenKeyOf(run[r])
                              /\ "token" \in run[r].issued
                              /\ "tokenCache" \in run'[r].published
                         ELSE /\ k = HoldersKeyOf(run'[r])
                              /\ "holders" \in run[r].issued /\ ~run'[r].usedCache
                              /\ "holdersCache" \in run'[r].published
                              /\ cache'[k].data = run'[r].analyzedHolders]_vars

\* C21 witness: the latest run took its token from an entry written
\* earlier, and the entry still carries the time of that write
HitLeftEntryAsWritten ==
    \E r \in Runs :
        /\ r = started /\ run[r].pc # "idle"
        /\ "token" \notin run[r].issued /\ ~run[r].forceRefresh
        /\ TokenKeyOf(run[r]) \in DOMAIN cache
        /\ cache[TokenKeyOf(run[r])].timestamp < now

(***************************************************************************)
(* C22.  The cache has no locking: two requests for the same identifier    *)
(* can both miss before either writes, both call the provider and both     *)
(* write.  Every write wins over what the key held: after the step in      *)
(* which a run writes the token entry (or the holders entry) the key holds *)
(* that run's result with the time of this write, whether or not another   *)
(* run wrote the key before.                                               *)
(***************************************************************************)
Writes(r, what) == what \in run'[r].published /\ what \notin run[r].published

LastWriteWins ==
    [][\A r \in Runs :
         /\ Writes(r, "tokenCache") =>
               /\ TokenKeyOf(run[r]) \in DOMAIN cache'
               /\ cache'[TokenKeyOf(run[r])] = [data |-> TheToken, timestamp |-> now]
         /\ Writes(r, "holdersCache") =>
               /\ HoldersKeyOf(run[r]) \in DOMAIN cache'
               /\ cache'[HoldersKeyOf(run[r])] =
                      [data |-> run'[r].analyzedHolders, timestamp |-> now]]_vars

\* C22 witness: two requests for the same identifier, neither forced, have
\* both called the token provider and both written the entry; no entry can
\* have expired by now, so the second request read its miss before the
\* first one wrote.  The key holds the one entry of the later write.
DuplicateFetchBothWrote ==
    \E r1 \in Runs, r2 \in Runs :
        /\ r1 < r2
        /\ run[r1].tokenIdentifier = run[r2].tokenIdentifier
        /\ ~run[r1].forceRefresh /\ ~run[r2].forceRefresh
        /\ "token" \in run[r1].issued /\ "token" \in run[r2].issued
        /\ "tokenCache" \in run[r1].published /\ "tokenCache" \in run[r2].published
        /\ now = CACHE_TTL_TOKEN_INFO
        /\ cache[TokenKeyOf(run[r2])] = [data |-> TheToken, timestamp |-> now]

(***************************************************************************)
(* C23.  A request without forceRefresh that finds a token entry for the   *)
(* trimmed identifier no older than the TTL takes the token from it and    *)
(* does not call the token provider.  Otherwise it calls the provider,     *)
(* once: the call is issued in the step that starts the run and in no      *)
(* other.  When the call succeeds its result is in the cache under that    *)
(* identifier, with the time of the write, by the end of the step in which *)
(* the run goes on; when it fails the cache is left as it was.             *)
(***************************************************************************)
StartStep(r) == started' = r /\ started # r

FreshTokenEntry(key) ==
    key \in DOMAIN cache /\ now - cache[key].timestamp <= CACHE_TTL_TOKEN_INFO

TokenResolvedOrFetchedOnce ==
    [][\A r \in Runs :
         /\ (StartStep(r) /\ ~run'[r].forceRefresh) =>
               IF FreshTokenEntry(TokenKeyOf(run'[r]))
               THEN /\ "token" \notin run'[r].issued
                    /\ run'[r].pc # "fetchToken"
                    /\ run'[r].tokenInfo = cache[TokenKeyOf(run'[r])].data
                    /\ currentToken' = run'[r].tokenInfo
               ELSE /\ "token" \in run'[r].issued
                    /\ run'[r].pc = "fetchToken"
         /\ (run'[r].pc = "fetchToken" /\ run[r].pc # "fetchToken") => StartStep(r)
         /\ (run[r].pc = "fetchToken" /\ run'[r] # run[r]) =>
               /\ run'[r].pc # "fetchToken"
               /\ IF run'[r].outcome \in {"error", "tokenNotFound"}
                  THEN cache' = cache
                  ELSE /\ TokenKeyOf(run[r]) \in DOMAIN cache'
                       /\ cache'[TokenKeyOf(run[r])] = [data |-> TheToken, timestamp |-> now]]_vars

\* C23 witness: the latest request, not forced, found the entry at an age
\* of exactly the TTL and went on with the cached token, without a call
TokenServedAtTtl ==
    \E r \in Runs :
        /\ r = started /\ ~run[r].forceRefresh
        /\ run[r].pc \notin {"idle", "fetchToken"}
        /\ "token" \notin run[r].issued
        /\ run[r].tokenInfo = TheToken
        /\ TokenKeyOf(run[r]) \in DOMAIN cache
        /\ now - cache[TokenKeyOf(run[r])].timestamp = CACHE_TTL_TOKEN_INFO

(***************************************************************************)
(* C24.  A run consumes at most the first 30 holders of the list the       *)
(* holder provider returned: the analyze calls it has issued and the       *)
(* liquidity-pool records it has created are together at most 30, and      *)
(* every holder it classified, called the analyze service for or holds a   *)
(* record of is among the first 30 of the list.                            *)
(***************************************************************************)
AmongFirst(r, address) ==
    \E k \in 1..Len(run[r].holderData) :
        k <= HOLDER_SLICE /\ run[r].holderData[k].address = address

AtMostThirtyConsumed ==
    \A r \in Runs :
        /\ Len(run[r].calls) + Len(run[r].liquidityPools) <= HOLDER_SLICE
        /\ \A k \in 1..Len(run[r].liquidityPools) :
              AmongFirst(r, run[r].liquidityPools[k].address)
        /\ \A k \in 1..Len(run[r].normalWallets) :
              AmongFirst(r, run[r].normalWallets[k].address)
        /\ \A k \in 1..Len(run[r].analyzedHolders) :
              AmongFirst(r, run[r].analyzedHolders[k].address)
        /\ \A k \in 1..Len(run[r].calls) :
              run[r].calls[k] <= Len(run[r].normalWallets)

\* C24 witness: a list of 32 holders has been scored to the end, with one
\* pool record and 29 analyze calls
LongListScored ==
    /\ run[1].pc = "done" /\ run[1].outcome = "completed"
    /\ Len(run[1].holderData) = HOLDER_SLICE + 2
    /\ Len(run[1].liquidityPools) = 1
    /\ Len(run[1].calls) = HOLDER_SLICE - 1
    /\ Len(walletAnalysis) = HOLDER_SLICE

(***************************************************************************)
(* C25 as claimed: when a run that a newer request has superseded resumes  *)
(* after one of its awaits, the step leaves the error text, the loading    *)
(* and scanning flags, the progress counters and the set of ticking        *)
(* countdown intervals (the newer run's among them) as they were.          *)
(***************************************************************************)
Resumes(r) == run[r].pc \notin {"idle", "done"} /\ run'[r] # run[r]

SupersededRunLeavesStateAlone ==
    [][\A r \in Runs :
         (Resumes(r) /\ r \in aborted /\ started > r) =>
             /\ error' = error
             /\ loading' = loading /\ isScanning' = isScanning
             /\ analysisProgress' = analysisProgress
             /\ intervals' = intervals]_vars

(***************************************************************************)
(* C26 as claimed: once every run that was started has ended, whether it   *)
(* completed, failed or was stopped by stopScanning, loading is false.     *)
(***************************************************************************)
LoadingReleasedWhenIdle ==
    (started > 0 /\ \A r \in StartedRuns : run[r].pc = "done") => ~loading

(***************************************************************************)
(* C27.  A run started with forceRefresh never reads the cache.  Its first *)
(* step issues the token call and leaves the cache as it is, whatever the  *)
(* cache holds; when the token is found and the run goes on in wallet mode *)
(* it issues the holder lookup, and it is never served a cached holders    *)
(* list.  A forced wallet-mode run that completes has called the holder    *)
(* and supply providers and the analyze service once per ordinary wallet,  *)
(* and each of its cache writes leaves the key with the fresh result and   *)
(* the time of the write.                                                  *)
(***************************************************************************)
ForcedRunBypassesCache ==
    [][\A r \in Runs :
         /\ (StartStep(r) /\ run'[r].forceRefresh) =>
               /\ run'[r].pc = "fetchToken" /\ "token" \in run'[r].issued
               /\ cache' = cache
         /\ run'[r].forceRefresh => ~run'[r].usedCache
         /\ (run[r].forceRefresh /\ run[r].pc = "fetchToken"
                /\ run'[r].pc \notin {"fetchToken", "done"}) =>
               /\ cache'[TokenKeyOf(run[r])] = [data |-> TheToken, timestamp |-> now]
               /\ IF run[r].privacy
                  THEN run'[r].pc = "fusion"
                  ELSE run'[r].pc = "fetchHolders" /\ "holders" \in run'[r].issued
         /\ (run[r].forceRefresh /\ run[r].pc # "done" /\ run'[r].pc = "done"
                /\ run'[r].outcome = "completed") =>
               /\ {"token", "holders", "supply"} \subseteq run'[r].issued
               /\ Len(run'[r].calls) = Len(run'[r].normalWallets)
               /\ {"tokenCache", "holdersCache"} \subseteq run'[r].published
               /\ cache'[HoldersKeyOf(run'[r])] =
                      [data |-> run'[r].analyzedHolders, timestamp |-> now]]_vars

\* C27 witness: an earlier run completed and was over when the forced
\* wallet-mode request started, so both keys held entries no older than
\* the TTL; the forced run called the providers and the analyze service
\* and completed, and the holders key carries the time of its write
ForcedRunRefetched ==
    /\ run[1] = [RunInit EXCEPT !.pc = "done", !.outcome = "completed"]
    /\ started = 2
    /\ run[2].forceRefresh /\ ~run[2].privacy
    /\ run[2].pc = "done" /\ run[2].outcome = "completed"
    /\ Len(run[2].calls) > 0
    /\ now = CACHE_TTL_TOKEN_INFO
    /\ cache[HoldersKeyOf(run[2])].timestamp = now

(***************************************************************************)
(* C28 as claimed: a run in privacy mode issues no holder lookup, no       *)
(* supply lookup and no analyze call and neither reads nor writes a        *)
(* holders cache entry; when it has ended in the privacy branch without    *)
(* being cancelled, the wallet-analysis list is empty and there is either  *)
(* the score of the fusion result or an error.                             *)
(***************************************************************************)
PrivacyBranchOnly(r) ==
    run[r].privacy =>
        /\ run[r].issued \cap {"holders", "supply", "analyze"} = {}
        /\ run[r].calls = << >>
        /\ ~run[r].usedCache
        /\ "holdersCache" \notin run[r].published

EndedInPrivacyBranch(r) ==
    /\ r = started /\ r \notin aborted
    /\ run[r].pc = "done" /\ run[r].outcome \in {"privacyResult", "privacyError"}

PrivacyRunEndsWithEmptyList ==
    \A r \in Runs :
        /\ PrivacyBranchOnly(r)
        /\ EndedInPrivacyBranch(r) =>
              /\ walletAnalysis = << >>
              /\ IF run[r].outcome = "privacyResult"
                 THEN coinScore.source = "fusion"
                 ELSE error # ""

(***************************************************************************)
(* C29.  The holders cache only holds complete result sets.  A holders     *)
(* entry appears or changes only in a step in which a run writes it, and   *)
(* the list written then is not empty, has exactly one record for every    *)
(* consumed holder, comes from a scoring loop that ran to its end (every   *)
(* ordinary wallet called and answered) and is ordered by iq descending.   *)
(***************************************************************************)
RecordsFor(list, address) == {j \in 1..Len(list) : list[j].address = address}

IqDescending(list) == \A j \in 1..(Len(list) - 1) : list[j].iq >= list[j + 1].iq

CompleteResultSet(r, list) ==
    /\ Len(list) > 0
    /\ Len(list) = Len(run'[r].consumed)
    /\ \A k \in 1..Len(run'[r].consumed) :
          Cardinality(RecordsFor(list, run'[r].consumed[k].address)) = 1
    /\ run'[r].i = Len(run'[r].normalWallets)
    /\ Len(run'[r].calls) = Len(run'[r].normalWallets)
    /\ Len(run'[r].responses) = Len(run'[r].normalWallets)
    /\ IqDescending(list)

StartsARun == \E r \in Runs : StartStep(r)

CountdownWithinRange ==
    [][/\ countdown \in 0..COUNTDOWN_START
       /\ countdown' \in 0..COUNTDOWN_START
       /\ StartsARun => countdown' = COUNTDOWN_START
       /\ (~StartsARun /\ countdown' # countdown) =>
             countdown' = (IF countdown > 1 THEN countdown - 1 ELSE 0)
       /\ countdown' > countdown => StartsARun]_vars

\* C30 witness: the interval of a run has ticked the countdown down to 0
\* and is still set
CountdownRanOut ==
    /\ started > 0
    /\ intervals # {}
    /\ countdown = 0

====
